---- MODULE Spec2Model ----
(***************************************************************************)
(* Model of the recipe -> Thermomix conversion of cookidoo-mcp             *)
(* (src/src/thermomix_converter.py, models.py, constants.py) and of the    *)
(* two tools of its server (src/src/server.py, cookidoo_service.py,        *)
(* recipe_scraper.py).                                                     *)
(*                                                                         *)
(* A Python str is a sequence of one-character strings.  An Optional value *)
(* is a sequence of length 0 (None) or 1 (the value).  Positions in the    *)
(* helper operators are 1-based; offsets stored in annotations are the     *)
(* 0-based offsets of the Python code.                                     *)
(***************************************************************************)
EXTENDS Integers, Sequences, FiniteSets, TLC

VARIABLES
  pc,         \* position of the running call
  step_text,  \* argument of convert_step / _clean_description
  locale,     \* the locale argument ("fr" or "en", as a str)
  step,       \* the ThermomixStep being built or returned (None before)
  rendered,   \* the text ThermomixStep.to_text rendered (None before)
  cleaned,    \* the results of the successive _clean_description calls
  scraped,    \* the ScrapedRecipe given to convert_recipe (None before)
  recipe,     \* the ThermomixRecipe convert_recipe returned (None before)
  calls,      \* the convert_recipe calls made so far, with their results
  environ,    \* os.environ of the server: credentials set or not, the language
  _client,    \* server.py's global _client: None or the client object it names
  clients,    \* the CookidooClient objects: _api set, its login completed
  tasks,      \* the tool calls of the server: position, locals and reply
  remote      \* the operations performed on the Cookidoo account so far

converter == <<pc, step_text, locale, step, rendered, cleaned, scraped, recipe, calls>>
server == <<environ, _client, clients, tasks, remote>>
vars == <<pc, step_text, locale, step, rendered, cleaned, scraped, recipe, calls,
          environ, _client, clients, tasks, remote>>

----------------------------------------------------------------------------
(* Python values *)

None == << >>
Some(v) == <<v>>
\* Python truthiness of an Optional[int]: None and 0 are falsy
Truthy(o) == o # None /\ o[1] # 0
\* dict.get(key, default) on a table entry
Get(params, key, default) == IF key \in DOMAIN params THEN params[key] ELSE default
\* a local variable: "name = value", then the rest of the function body, which
\* reads the variable as the parameter of Rest
Bind(value, Rest(_)) == Rest(value)

\* the tool calls the server runs: each task is one call of a tool
MaxTasks == 2
Tasks == 1..MaxTasks
\* a task before its call: no tool, no locals, no reply
idle ==
  [tool |-> "none", pc |-> "idle", url |-> << >>, outcome |-> "none",
   client |-> None, scraped |-> None, thermomix_recipe |-> None, reply |-> None]
\* the server before any tool call: no client (server.py line 29)
NoClient ==
  /\ _client = None
  /\ clients = [t \in Tasks |-> [_api |-> FALSE, logged_in |-> FALSE]]
  /\ tasks = [t \in Tasks |-> idle]
  /\ remote = << >>
\* the server idle and left alone, while the converter is called directly
ServerIdle ==
  /\ environ = [credentials |-> FALSE, language |-> <<"f","r","-","F","R">>]
  /\ NoClient

Min(S) == CHOOSE x \in S : \A y \in S : x <= y
Max(S) == CHOOSE x \in S : \A y \in S : x >= y

----------------------------------------------------------------------------
(* Characters.  A character outside Latin-1 is written by name: "EN_DASH" *)
(* (U+2013), "FRACTION_SLASH" (U+2044), "ONE_THIRD" (U+2153) and           *)
(* "TWO_THIRDS" (U+2154) are single characters of the text.                *)

DigitChars == <<"0","1","2","3","4","5","6","7","8","9">>
IsDigit(c) == c \in {"0","1","2","3","4","5","6","7","8","9"}
DigitValue(c) == CHOOSE d \in 0..9 : DigitChars[d + 1] = c
\* \s of the regular expressions
IsSpace(c) == c \in {" ", "\t", "\n"}
\* [\d.] of the speed patterns
IsNumChar(c) == IsDigit(c) \/ c = "."
\* characters that are not \w (letters, digits and the fraction glyphs are \w)
NonWordChars == {" ", "\t", "\n", ".", ",", "/", "(", ")", "-", "EN_DASH", "'", "°", ":", ";", "!"}
IsWordChar(c) == c \notin NonWordChars

UpperToLower ==
  [c \in {"A","B","C","D","E","F","G","H","I","J","K","L","M","N","O","P","Q","R",
          "S","T","U","V","W","X","Y","Z","É","È","À","Ç"} |->
     CASE c = "A" -> "a" [] c = "B" -> "b" [] c = "C" -> "c" [] c = "D" -> "d"
       [] c = "E" -> "e" [] c = "F" -> "f" [] c = "G" -> "g" [] c = "H" -> "h"
       [] c = "I" -> "i" [] c = "J" -> "j" [] c = "K" -> "k" [] c = "L" -> "l"
       [] c = "M" -> "m" [] c = "N" -> "n" [] c = "O" -> "o" [] c = "P" -> "p"
       [] c = "Q" -> "q" [] c = "R" -> "r" [] c = "S" -> "s" [] c = "T" -> "t"
       [] c = "U" -> "u" [] c = "V" -> "v" [] c = "W" -> "w" [] c = "X" -> "x"
       [] c = "Y" -> "y" [] c = "Z" -> "z" [] c = "É" -> "é" [] c = "È" -> "è"
       [] c = "À" -> "à" [] c = "Ç" -> "ç"]
LowerChar(c) == IF c \in DOMAIN UpperToLower THEN UpperToLower[c] ELSE c
\* str.lower()
Lower(s) == [i \in 1..Len(s) |-> LowerChar(s[i])]

\* NFKD decomposition of one character with the combining marks removed
Unaccented ==
  [c \in {"é","è","ê","ë","à","â","î","ï","ô","û","ù","ü","ç","É","È","À","Ç",
          "½","¼","¾"} |->
     CASE c \in {"é","è","ê","ë"} -> <<"e">>
       [] c \in {"à","â"} -> <<"a">>
       [] c \in {"î","ï"} -> <<"i">>
       [] c = "ô" -> <<"o">>
       [] c \in {"û","ù","ü"} -> <<"u">>
       [] c = "ç" -> <<"c">>
       [] c \in {"É","È"} -> <<"E">>
       [] c = "À" -> <<"A">>
       [] c = "Ç" -> <<"C">>
       [] c = "½" -> <<"1","FRACTION_SLASH","2">>
       [] c = "¼" -> <<"1","FRACTION_SLASH","4">>
       [] c = "¾" -> <<"3","FRACTION_SLASH","4">>]
RECURSIVE StripFrom(_, _)
StripFrom(s, i) ==
  IF i > Len(s) THEN << >>
  ELSE (IF s[i] \in DOMAIN Unaccented THEN Unaccented[s[i]] ELSE <<s[i]>>)
       \o StripFrom(s, i + 1)
_strip_accents(text) == StripFrom(text, 1)

----------------------------------------------------------------------------
(* Scanning helpers shared by the regular expressions *)

\* w is at position i of s
StartsWith(s, i, w) ==
  /\ i >= 1
  /\ i + Len(w) - 1 <= Len(s)
  /\ \A j \in 1..Len(w) : s[i + j - 1] = w[j]
\* Python's "w in s"
Contains(s, w) == \E i \in 1..(Len(s) - Len(w) + 1) : StartsWith(s, i, w)

RECURSIVE SkipSpaces(_, _)
SkipSpaces(s, i) == IF i <= Len(s) /\ IsSpace(s[i]) THEN SkipSpaces(s, i + 1) ELSE i
RECURSIVE SkipDigits(_, _)
SkipDigits(s, i) == IF i <= Len(s) /\ IsDigit(s[i]) THEN SkipDigits(s, i + 1) ELSE i
RECURSIVE SkipNum(_, _)
SkipNum(s, i) == IF i <= Len(s) /\ IsNumChar(s[i]) THEN SkipNum(s, i + 1) ELSE i

\* int() of a run of decimal digits
RECURSIVE IntOf(_, _)
IntOf(s, n) == IF n = 0 THEN 0 ELSE 10 * IntOf(s, n - 1) + DigitValue(s[n])
ParseInt(s) == IntOf(s, Len(s))

\* str() of a non-negative int
RECURSIVE IntToStr(_)
IntToStr(n) == IF n < 10 THEN <<DigitChars[n + 1]>>
               ELSE IntToStr(n \div 10) \o <<DigitChars[(n % 10) + 1]>>

\* str.strip()
RECURSIVE LastNonSpace(_, _)
LastNonSpace(s, i) == IF i >= 1 /\ IsSpace(s[i]) THEN LastNonSpace(s, i - 1) ELSE i
Strip(s) == SubSeq(s, SkipSpaces(s, 1), LastNonSpace(s, Len(s)))

----------------------------------------------------------------------------
(* constants.py: the keyword tables, in definition order *)

MIXING_KEYWORDS == <<
    [keyword |-> <<"m","e","l","a","n","g","e","r">>, speed |-> 3, duration |-> 30],
    [keyword |-> <<"m","i","x","e","r">>, speed |-> 8, duration |-> 30],
    [keyword |-> <<"b","a","t","t","r","e">>, speed |-> 4, duration |-> 45],
    [keyword |-> <<"f","o","u","e","t","t","e","r">>, speed |-> 4, duration |-> 60],
    [keyword |-> <<"p","e","t","r","i","r">>, speed |-> 6, duration |-> 120],
    [keyword |-> <<"h","a","c","h","e","r">>, speed |-> 5, duration |-> 5],
    [keyword |-> <<"e","m","i","n","c","e","r">>, speed |-> 5, duration |-> 5],
    [keyword |-> <<"p","u","l","v","e","r","i","s","e","r">>, speed |-> 10, duration |-> 15],
    [keyword |-> <<"b","r","o","y","e","r">>, speed |-> 10, duration |-> 30],
    [keyword |-> <<"r","a","p","e","r">>, speed |-> 5, duration |-> 10],
    [keyword |-> <<"c","o","n","c","a","s","s","e","r">>, speed |-> 5, duration |-> 10],
    [keyword |-> <<"i","n","c","o","r","p","o","r","e","r">>, speed |-> 3, duration |-> 30, reverse |-> TRUE],
    [keyword |-> <<"r","e","m","u","e","r">>, speed |-> 1, duration |-> 60, reverse |-> TRUE],
    [keyword |-> <<"t","o","u","i","l","l","e","r">>, speed |-> 1, duration |-> 30, reverse |-> TRUE],
    [keyword |-> <<"m","i","x">>, speed |-> 3, duration |-> 30],
    [keyword |-> <<"b","l","e","n","d">>, speed |-> 8, duration |-> 30],
    [keyword |-> <<"b","e","a","t">>, speed |-> 4, duration |-> 45],
    [keyword |-> <<"w","h","i","s","k">>, speed |-> 4, duration |-> 60],
    [keyword |-> <<"w","h","i","p">>, speed |-> 4, duration |-> 60],
    [keyword |-> <<"k","n","e","a","d">>, speed |-> 6, duration |-> 120],
    [keyword |-> <<"c","h","o","p">>, speed |-> 5, duration |-> 5],
    [keyword |-> <<"d","i","c","e">>, speed |-> 5, duration |-> 5],
    [keyword |-> <<"s","l","i","c","e">>, speed |-> 5, duration |-> 5],
    [keyword |-> <<"m","i","n","c","e">>, speed |-> 5, duration |-> 5],
    [keyword |-> <<"g","r","i","n","d">>, speed |-> 10, duration |-> 30],
    [keyword |-> <<"g","r","a","t","e">>, speed |-> 5, duration |-> 10],
    [keyword |-> <<"s","h","r","e","d">>, speed |-> 5, duration |-> 10],
    [keyword |-> <<"c","r","u","s","h">>, speed |-> 5, duration |-> 10],
    [keyword |-> <<"p","u","r","e","e">>, speed |-> 8, duration |-> 30],
    [keyword |-> <<"f","o","l","d">>, speed |-> 3, duration |-> 30, reverse |-> TRUE],
    [keyword |-> <<"c","o","m","b","i","n","e">>, speed |-> 3, duration |-> 30],
    [keyword |-> <<"s","t","i","r">>, speed |-> 1, duration |-> 60, reverse |-> TRUE],
    [keyword |-> <<"e","m","u","l","s","i","f","y">>, speed |-> 4, duration |-> 30]
  >>

COOKING_KEYWORDS == <<
    [keyword |-> <<"c","u","i","r","e">>, speed |-> 1, temp |-> 100],
    [keyword |-> <<"m","i","j","o","t","e","r">>, speed |-> 1, temp |-> 90, reverse |-> TRUE],
    [keyword |-> <<"r","i","s","s","o","l","e","r">>, speed |-> 1, temp |-> 120],
    [keyword |-> <<"s","a","u","t","e","r">>, speed |-> 1, temp |-> 120],
    [keyword |-> <<"s","a","u","t","e">>, speed |-> 1, temp |-> 120],
    [keyword |-> <<"r","e","v","e","n","i","r">>, speed |-> 1, temp |-> 120, reverse |-> TRUE],
    [keyword |-> <<"f","a","i","r","e"," ","r","e","v","e","n","i","r">>, speed |-> 1, temp |-> 120, reverse |-> TRUE],
    [keyword |-> <<"d","o","r","e","r">>, speed |-> 1, temp |-> 120, reverse |-> TRUE],
    [keyword |-> <<"f","o","n","d","r","e">>, speed |-> 1, temp |-> 50],
    [keyword |-> <<"f","a","i","r","e"," ","f","o","n","d","r","e">>, speed |-> 1, temp |-> 50],
    [keyword |-> <<"c","h","a","u","f","f","e","r">>, speed |-> 2, temp |-> 90],
    [keyword |-> <<"r","e","c","h","a","u","f","f","e","r">>, speed |-> 2, temp |-> 70],
    [keyword |-> <<"b","o","u","i","l","l","i","r">>, speed |-> 1, temp |-> 100],
    [keyword |-> <<"f","r","e","m","i","r">>, speed |-> 1, temp |-> 90],
    [keyword |-> <<"p","o","r","t","e","r"," ","a"," ","e","b","u","l","l","i","t","i","o","n">>, speed |-> 1, temp |-> 100],
    [keyword |-> <<"b","l","a","n","c","h","i","r">>, speed |-> 1, temp |-> 100],
    [keyword |-> <<"b","r","a","i","s","e","r">>, speed |-> 1, temp |-> 100, reverse |-> TRUE],
    [keyword |-> <<"c","o","m","p","o","t","e","r">>, speed |-> 1, temp |-> 90, reverse |-> TRUE],
    [keyword |-> <<"c","o","n","f","i","r","e">>, speed |-> 1, temp |-> 80, reverse |-> TRUE],
    [keyword |-> <<"c","a","r","a","m","e","l","i","s","e","r">>, speed |-> 2, temp |-> 120],
    [keyword |-> <<"v","a","p","e","u","r">>, speed |-> 1, temp |-> 100, varoma |-> TRUE],
    [keyword |-> <<"c","o","o","k">>, speed |-> 1, temp |-> 100],
    [keyword |-> <<"s","i","m","m","e","r">>, speed |-> 1, temp |-> 90, reverse |-> TRUE],
    [keyword |-> <<"s","e","a","r">>, speed |-> 1, temp |-> 120],
    [keyword |-> <<"f","r","y">>, speed |-> 1, temp |-> 120],
    [keyword |-> <<"b","r","o","w","n">>, speed |-> 1, temp |-> 120, reverse |-> TRUE],
    [keyword |-> <<"m","e","l","t">>, speed |-> 1, temp |-> 50],
    [keyword |-> <<"h","e","a","t">>, speed |-> 2, temp |-> 90],
    [keyword |-> <<"w","a","r","m">>, speed |-> 2, temp |-> 70],
    [keyword |-> <<"r","e","h","e","a","t">>, speed |-> 2, temp |-> 70],
    [keyword |-> <<"b","o","i","l">>, speed |-> 1, temp |-> 100],
    [keyword |-> <<"b","r","i","n","g"," ","t","o"," ","a"," ","b","o","i","l">>, speed |-> 1, temp |-> 100],
    [keyword |-> <<"b","l","a","n","c","h">>, speed |-> 1, temp |-> 100],
    [keyword |-> <<"b","r","a","i","s","e">>, speed |-> 1, temp |-> 100, reverse |-> TRUE],
    [keyword |-> <<"c","a","r","a","m","e","l","i","z","e">>, speed |-> 2, temp |-> 120],
    [keyword |-> <<"s","t","e","a","m">>, speed |-> 1, temp |-> 100, varoma |-> TRUE],
    [keyword |-> <<"r","o","a","s","t">>, speed |-> 1, temp |-> 120],
    [keyword |-> <<"r","e","d","u","c","e">>, speed |-> 1, temp |-> 100],
    [keyword |-> <<"p","o","a","c","h">>, speed |-> 1, temp |-> 80],
    [keyword |-> <<"s","c","a","l","d">>, speed |-> 1, temp |-> 90]
  >>

TURBO_KEYWORDS == {
    <<"m","i","x","e","r"," ","f","i","n","e","m","e","n","t">>,
    <<"r","e","d","u","i","r","e"," ","e","n"," ","p","o","u","d","r","e">>,
    <<"g","l","a","c","e"," ","p","i","l","e","e">>,
    <<"c","r","u","s","h"," ","i","c","e">>,
    <<"g","r","i","n","d"," ","t","o"," ","p","o","w","d","e","r">>,
    <<"f","i","n","e","l","y"," ","b","l","e","n","d">>
  }

----------------------------------------------------------------------------
(* Explicit values stated in a step text *)

vitesse == <<"v","i","t","e","s","s","e">>
speed_word == <<"s","p","e","e","d">>

\* end of (?:vitesse|speed) at position i of the lowercased text, 0 when absent
SpeedWordEnd(low, i) ==
  IF StartsWith(low, i, vitesse) THEN i + Len(vitesse)
  ELSE IF StartsWith(low, i, speed_word) THEN i + Len(speed_word)
  ELSE 0
\* (?:vitesse|speed)\s*([\d.]+) matches at position i
SpeedMatchAt(low, i) ==
  /\ SpeedWordEnd(low, i) # 0
  /\ LET n == SkipSpaces(low, SpeedWordEnd(low, i))
     IN n <= Len(low) /\ IsNumChar(low[n])
\* group(1) of the leftmost match of re.search, None when there is no match
SpeedGroup(text) ==
  Bind(Lower(text), LAMBDA low :
    LET starts == {i \in 1..Len(low) : SpeedMatchAt(low, i)}
    IN IF starts = {} THEN None
       ELSE LET n == SkipSpaces(low, SpeedWordEnd(low, Min(starts)))
            IN Some(SubSeq(text, n, SkipNum(text, n) - 1)))

\* float() accepts a run of [\d.] only with at least one digit and at most one "."
FloatOk(g) ==
  /\ \E i \in 1..Len(g) : IsDigit(g[i])
  /\ Cardinality({i \in 1..Len(g) : g[i] = "."}) <= 1
\* round(float(g)): Python rounds a half to the even neighbour
RoundFloat(g) ==
  LET dots == {i \in 1..Len(g) : g[i] = "."}
      d == IF dots = {} THEN Len(g) + 1 ELSE Min(dots)
      whole == ParseInt(SubSeq(g, 1, d - 1))
      frac == SubSeq(g, d + 1, Len(g))
      first == IF frac = << >> THEN 0 ELSE DigitValue(frac[1])
      rest == \E i \in 2..Len(frac) : frac[i] # "0"
  IN IF first > 5 \/ (first = 5 /\ rest) THEN whole + 1
     ELSE IF first = 5 /\ whole % 2 = 1 THEN whole + 1
     ELSE whole

\* _parse_speed_from_text raises ValueError when float() rejects the group
_parse_speed_raises(text) ==
  Bind(SpeedGroup(text), LAMBDA g : g # None /\ ~FloatOk(g[1]))
_parse_speed_from_text(text) ==
  Bind(SpeedGroup(text), LAMBDA g :
    IF g = None \/ ~FloatOk(g[1]) THEN None
    ELSE Bind(RoundFloat(g[1]), LAMBDA rounded :
           Some(IF rounded < 1 THEN 1 ELSE rounded)))

min_word == <<"m","i","n">>
sec_word == <<"s","e","c">>
eure == <<"e","u","r","e">>
our == <<"o","u","r">>

\* a run of digits starts at i and \s*(?:minutes?|min) follows it
MinutesMatchAt(low, i) ==
  /\ IsDigit(low[i])
  /\ StartsWith(low, SkipSpaces(low, SkipDigits(low, i)), min_word)
\* a run of digits starts at i and \s*(?:secondes?|seconds?|sec|s\b) follows it
SecondsMatchAt(low, i) ==
  /\ IsDigit(low[i])
  /\ LET n == SkipSpaces(low, SkipDigits(low, i))
     IN \/ StartsWith(low, n, sec_word)
        \/ /\ StartsWith(low, n, <<"s">>)
           /\ (n = Len(low) \/ ~IsWordChar(low[n + 1]))
\* a run of digits starts at i and \s*h follows it
HoursMatchAt(low, i) ==
  /\ IsDigit(low[i])
  /\ StartsWith(low, SkipSpaces(low, SkipDigits(low, i)), <<"h">>)
\* end of h(?:eures?|ours?)? for an h at position n
HourWordEnd(low, n) ==
  LET stem == IF StartsWith(low, n + 1, eure) THEN n + 1 + Len(eure)
              ELSE IF StartsWith(low, n + 1, our) THEN n + 1 + Len(our)
              ELSE 0
  IN IF stem = 0 THEN n + 1
     ELSE IF StartsWith(low, stem, <<"s">>) THEN stem + 1 ELSE stem
\* the value of the hours pattern matched at i: (hours * 60 + minutes) * 60
HoursValue(low, i) ==
  LET e == SkipDigits(low, i)
      m == SkipSpaces(low, HourWordEnd(low, SkipSpaces(low, e)))
      hours == ParseInt(SubSeq(low, i, e - 1))
      minutes == ParseInt(SubSeq(low, m, SkipDigits(low, m) - 1))
  IN (hours * 60 + minutes) * 60

_parse_duration_from_text(text) ==
  Bind(Lower(text), LAMBDA text_lower :
    LET mins == {i \in 1..Len(text_lower) : MinutesMatchAt(text_lower, i)}
        secs == {i \in 1..Len(text_lower) : SecondsMatchAt(text_lower, i)}
        hrs == {i \in 1..Len(text_lower) : HoursMatchAt(text_lower, i)}
        Run(i) == ParseInt(SubSeq(text_lower, i, SkipDigits(text_lower, i) - 1))
    IN IF mins # {} THEN Some(Run(Min(mins)) * 60)
       ELSE IF secs # {} THEN Some(Run(Min(secs)))
       ELSE IF hrs # {} THEN Some(HoursValue(text_lower, Min(hrs)))
       ELSE None)

\* (\d+)\s*° matches at position i
TemperatureMatchAt(text, i) ==
  /\ IsDigit(text[i])
  /\ StartsWith(text, SkipSpaces(text, SkipDigits(text, i)), <<"°">>)
\* int(group(1)) of the leftmost match, None when there is no match
TemperatureGroup(text) ==
  LET starts == {i \in 1..Len(text) : TemperatureMatchAt(text, i)}
  IN IF starts = {} THEN None
     ELSE Some(ParseInt(SubSeq(text, Min(starts), SkipDigits(text, Min(starts)) - 1)))
\* mutant of _parse_temperature_from_text: the cap at 120 is missing
ParseTemperatureUnclamped(text) ==
  Bind(TemperatureGroup(text), LAMBDA g :
    IF g # None /\ g[1] >= 37 THEN g ELSE None)
\* mutant of _parse_temperature_from_text: the floor at 37 is missing
ParseTemperatureNoFloor(text) ==
  Bind(TemperatureGroup(text), LAMBDA g :
    IF g = None THEN None ELSE Some(IF g[1] < 120 THEN g[1] ELSE 120))
_parse_temperature_from_text(text) ==
  Bind(TemperatureGroup(text), LAMBDA g :
    IF g = None THEN None
    ELSE IF g[1] >= 37 THEN Some(IF g[1] < 120 THEN g[1] ELSE 120)
    ELSE None)

varoma == <<"v","a","r","o","m","a">>
\* \bvaroma\b in text.lower()
_is_varoma_temperature(text) ==
  Bind(Lower(text), LAMBDA low :
    \E i \in 1..Len(low) :
      /\ StartsWith(low, i, varoma)
      /\ (i = 1 \/ ~IsWordChar(low[i - 1]))
      /\ (i + Len(varoma) > Len(low) \/ ~IsWordChar(low[i + Len(varoma)])))

----------------------------------------------------------------------------
(* _clean_description *)

\* re.sub: every non-overlapping match, leftmost first, is replaced by repl;
\* ends[i] is the position after the match that starts at i, 0 when none does
RECURSIVE SubFrom(_, _, _, _)
SubFrom(s, ends, repl, i) ==
  IF i > Len(s) THEN << >>
  ELSE IF ends[i] # 0 THEN repl \o SubFrom(s, ends, repl, ends[i])
  ELSE <<s[i]>> \o SubFrom(s, ends, repl, i + 1)

\* _OLD_TTS_RE  \s*\([^)]*(?:speed|vitesse)\s*[\d.]+[^)]*\)\s*  at position i
OldTtsEnd(low, i) ==
  LET p == SkipSpaces(low, i)
      closing == {q \in (p + 1)..Len(low) : low[q] = ")"}
  IN IF p > Len(low) \/ low[p] # "(" \/ closing = {} THEN 0
     ELSE IF \E k \in (p + 1)..(Min(closing) - 1) : SpeedMatchAt(low, k)
          THEN SkipSpaces(low, Min(closing) + 1)
          ELSE 0

\* (?:\d+\s*(?:sec|min|s)\s*/\s*)? at position c: the position after the group
TtsDurationEnd(low, c) ==
  LET u == SkipSpaces(low, SkipDigits(low, c))
      SlashAfter(w) == StartsWith(low, u, w)
                       /\ StartsWith(low, SkipSpaces(low, u + Len(w)), <<"/">>)
      After(w) == SkipSpaces(low, SkipSpaces(low, u + Len(w)) + 1)
  IN IF SkipDigits(low, c) = c THEN c
     ELSE IF SlashAfter(sec_word) THEN After(sec_word)
     ELSE IF SlashAfter(min_word) THEN After(min_word)
     ELSE IF SlashAfter(<<"s">>) THEN After(<<"s">>)
     ELSE c
\* (?:\d+\s*°C\s*/\s*)? at position d: the position after the group
TtsTemperatureEnd(low, d) ==
  LET u == SkipSpaces(low, SkipDigits(low, d))
      sl == SkipSpaces(low, u + 2)
  IN IF SkipDigits(low, d) > d /\ StartsWith(low, u, <<"°","c">>)
        /\ StartsWith(low, sl, <<"/">>)
     THEN SkipSpaces(low, sl + 1)
     ELSE d
\* _TTS_TEXT_RE at position i
TtsTextEnd(low, i) ==
  LET a == SkipSpaces(low, i)
      b == IF StartsWith(low, a, <<".">>) THEN a + 1 ELSE a
  IN Bind(TtsTemperatureEnd(low, TtsDurationEnd(low, SkipSpaces(low, b))), LAMBDA e :
       IF ~SpeedMatchAt(low, e) THEN 0
       ELSE Bind(SkipSpaces(low, SkipNum(low, SkipSpaces(low, SpeedWordEnd(low, e)))),
                 LAMBDA h :
                   SkipSpaces(low, IF StartsWith(low, h, <<".">>) THEN h + 1 ELSE h)))

thermomix == <<"t","h","e","r","m","o","m","i","x">>
dans == <<"d","a","n","s">>
dans_le_bol == <<"d","a","n","s"," ","l","e"," ","b","o","l">>

\* (?:dans|au)\s+(?:le\s+)?thermomix at position i
InThermomixEnd(low, i) ==
  LET w == IF StartsWith(low, i, dans) THEN i + 4
           ELSE IF StartsWith(low, i, <<"a","u">>) THEN i + 2 ELSE 0
      a == SkipSpaces(low, w)
      l == SkipSpaces(low, a + 2)
  IN IF w = 0 \/ a = w THEN 0
     ELSE IF StartsWith(low, a, <<"l","e">>) /\ l > a + 2 /\ StartsWith(low, l, thermomix)
          THEN l + Len(thermomix)
     ELSE IF StartsWith(low, a, thermomix) THEN a + Len(thermomix)
     ELSE 0
\* du\s+thermomix at position i
OfThermomixEnd(low, i) ==
  LET a == SkipSpaces(low, i + 2)
  IN IF StartsWith(low, i, <<"d","u">>) /\ a > i + 2 /\ StartsWith(low, a, thermomix)
     THEN a + Len(thermomix)
     ELSE 0
\* \s+ at position i
SpacesEnd(s, i) == IF SkipSpaces(s, i) > i THEN SkipSpaces(s, i) ELSE 0

\* re.sub(r"\.\s*\.$", ".", text)
DoublePeriod(s) ==
  LET starts == {i \in 1..(Len(s) - 1) :
                   /\ s[i] = "."
                   /\ SkipSpaces(s, i + 1) = Len(s)
                   /\ s[Len(s)] = "."}
  IN IF starts = {} THEN s ELSE SubSeq(s, 1, Min(starts) - 1) \o <<".">>

_clean_description(text) ==
  LET Sub(s, End(_, _), repl) ==
        Bind(Lower(s), LAMBDA low :
          SubFrom(s, [i \in 1..Len(s) |-> End(low, i)], repl, 1))
  IN Bind(Sub(text, OldTtsEnd, <<" ">>), LAMBDA t1 :
     Bind(Sub(t1, TtsTextEnd, <<" ">>), LAMBDA t2 :
     Bind(Sub(t2, InThermomixEnd, dans_le_bol), LAMBDA t3 :
     Bind(Sub(t3, OfThermomixEnd, << >>), LAMBDA t4 :
     Bind(Strip(Sub(t4, SpacesEnd, <<" ">>)), LAMBDA t5 :
       DoublePeriod(t5))))))

----------------------------------------------------------------------------
(* models.py: ThermomixStep rendering *)

fr == <<"f","r">>
en == <<"e","n">>
\* locale.startswith("fr")
IsFrench(loc) == StartsWith(loc, 1, fr)

Turbo == <<"T","u","r","b","o">>
Varoma == <<"V","a","r","o","m","a">>
min_unit == <<" ","m","i","n">>
sec_unit == <<" ","s","e","c">>
degrees_c == <<"°","C">>

\* "/".join(details)
RECURSIVE Join(_)
Join(details) ==
  IF details = << >> THEN << >>
  ELSE IF Len(details) = 1 THEN details[1]
  ELSE details[1] \o <<"/">> \o Join(Tail(details))

\* the components ThermomixStep.tts_text appends to details, in order
TimeDetail(st) ==
  IF ~Truthy(st.duration_seconds) THEN << >>
  ELSE LET minutes == st.duration_seconds[1] \div 60
           secs == st.duration_seconds[1] % 60
       IN IF minutes > 0
          THEN <<IntToStr(minutes) \o min_unit
                 \o (IF secs # 0 THEN <<" ">> \o IntToStr(secs) \o sec_unit ELSE << >>)>>
          ELSE <<IntToStr(secs) \o sec_unit>>
TemperatureDetail(st) ==
  IF st.is_varoma THEN <<Varoma>>
  ELSE IF Truthy(st.temperature) THEN <<IntToStr(st.temperature[1]) \o degrees_c>>
  ELSE << >>
\* mutant of SpeedDetail: the numeric speed is appended besides the Turbo marker
SpeedDetailBoth(st, loc) ==
  (IF st.is_turbo THEN <<Turbo>> ELSE << >>)
  \o (IF Truthy(st.speed)
      THEN <<(IF IsFrench(loc) THEN vitesse ELSE speed_word)
             \o <<" ">> \o IntToStr(st.speed[1])>>
      ELSE << >>)
SpeedDetail(st, loc) ==
  IF st.is_turbo THEN <<Turbo>>
  ELSE IF Truthy(st.speed)
       THEN <<(IF IsFrench(loc) THEN vitesse ELSE speed_word)
              \o <<" ">> \o IntToStr(st.speed[1])>>
  ELSE << >>
\* ThermomixStep.tts_text: None when there is no cooking parameter
tts_text(st, loc) ==
  LET details == TimeDetail(st) \o TemperatureDetail(st) \o SpeedDetail(st, loc)
  IN IF details = << >> THEN None ELSE Some(Join(details))
\* ThermomixStep.to_text
to_text(st, loc) ==
  Bind(tts_text(st, loc), LAMBDA tts :
    IF tts # None /\ tts[1] # << >>
    THEN st.description \o <<" ">> \o tts[1]
    ELSE st.description)

\* _build_tts_annotation_from_step: None when tts_text is empty
_build_tts_annotation_from_step(st, loc) ==
  Bind(tts_text(st, loc), LAMBDA tts_str :
    IF tts_str = None \/ tts_str[1] = << >> THEN None
    ELSE Some([position |-> [offset |-> Len(st.description) + 1,
                             length |-> Len(tts_str[1])],
               speed |-> IF st.is_turbo THEN Some(Turbo)
                         ELSE IF Truthy(st.speed) THEN Some(IntToStr(st.speed[1]))
                         ELSE None,
               time |-> st.duration_seconds,
               temperature_value |->
                         IF st.is_varoma THEN Some(Lower(Varoma))
                         ELSE IF Truthy(st.temperature)
                              THEN Some(IntToStr(st.temperature[1]))
                         ELSE None,
               temperature_unit |-> <<"C">>]))

----------------------------------------------------------------------------
(* convert_step *)

\* mutant of FirstKeyword: the scan does not stop at the first match
LastKeyword(table, text_normalized) ==
  LET hits == {k \in 1..Len(table) : Contains(text_normalized, table[k].keyword)}
  IN IF hits = {} THEN 0 ELSE Max(hits)
\* index of the first table entry whose keyword is in the text, 0 when none is
FirstKeyword(table, text_normalized) ==
  LET hits == {k \in 1..Len(table) : Contains(text_normalized, table[k].keyword)}
  IN IF hits = {} THEN 0 ELSE Min(hits)

\* line 275-279: some turbo keyword is in the normalized text
TurboCheck(text_normalized) ==
  \E kw \in TURBO_KEYWORDS : Contains(text_normalized, kw)
\* mutant of CookingTier: the turbo check does not skip the cooking tier
CookingTierAlways(is_turbo, text_normalized) ==
  FirstKeyword(COOKING_KEYWORDS, text_normalized)
\* lines 281-291: the cooking entry adopted, 0 when none; skipped for turbo
CookingTier(is_turbo, text_normalized) ==
  IF is_turbo THEN 0 ELSE FirstKeyword(COOKING_KEYWORDS, text_normalized)
\* mutant of MixingTier: the mixing table is scanned although the cooking
\* tier has resolved a speed
MixingTierAfterCooking(is_turbo, speed, text_normalized) ==
  IF is_turbo THEN 0 ELSE FirstKeyword(MIXING_KEYWORDS, text_normalized)
\* lines 293-300: the mixing entry adopted, 0 when none; only scanned when the
\* step is not turbo and speed is still None
MixingTier(is_turbo, speed, text_normalized) ==
  IF is_turbo \/ speed # None THEN 0
  ELSE FirstKeyword(MIXING_KEYWORDS, text_normalized)

\* the locals of convert_step after the keyword tiers (lines 265-300)
KeywordTiers(text) ==
  Bind(_strip_accents(Lower(text)), LAMBDA text_normalized :
  Bind(TurboCheck(text_normalized), LAMBDA is_turbo :
  Bind(CookingTier(is_turbo, text_normalized), LAMBDA c :
  \* params of the cooking entry adopted, an entry without parameters when none is
  Bind(IF c # 0 THEN COOKING_KEYWORDS[c] ELSE [keyword |-> << >>], LAMBDA cooking :
  Bind([speed |-> IF c # 0 THEN Some(Get(cooking, "speed", 1)) ELSE None,
        temperature |-> IF c # 0 /\ "temp" \in DOMAIN cooking
                        THEN Some(cooking.temp) ELSE None,
        reverse |-> IF c # 0 THEN Get(cooking, "reverse", FALSE) ELSE FALSE,
        duration |-> IF is_turbo THEN Some(15)
                     ELSE IF c # 0 /\ "duration" \in DOMAIN cooking
                          THEN Some(cooking.duration)
                     ELSE None], LAMBDA cooked :
  Bind(MixingTier(is_turbo, cooked.speed, text_normalized), LAMBDA m :
  \* params of the mixing entry adopted, an entry without parameters when none is
  Bind(IF m # 0 THEN MIXING_KEYWORDS[m] ELSE [keyword |-> << >>], LAMBDA mixing :
    [is_turbo |-> is_turbo,
     speed |-> IF m # 0 THEN Some(Get(mixing, "speed", 3)) ELSE cooked.speed,
     temperature |-> cooked.temperature,
     duration |-> IF m # 0 THEN Some(Get(mixing, "duration", 30))
                  ELSE cooked.duration,
     reverse |-> IF m # 0 THEN Get(mixing, "reverse", FALSE) ELSE cooked.reverse,
     is_varoma |-> \/ _is_varoma_temperature(text)
                   \/ (c # 0 /\ Get(cooking, "varoma", FALSE))])))))))

\* convert_step raises when _parse_speed_from_text does (line 312)
convert_step_raises(text) == _parse_speed_raises(text)

\* the ThermomixStep convert_step returns when it returns
convert_step(text, loc) ==
  Bind(KeywordTiers(text), LAMBDA tier :
  Bind(IF tier.is_varoma THEN None ELSE _parse_temperature_from_text(text),
       LAMBDA text_temp :
  Bind(_parse_duration_from_text(text), LAMBDA text_duration :
  Bind(_parse_speed_from_text(text), LAMBDA text_speed :
  Bind([description |-> _clean_description(text),
        duration_seconds |-> IF Truthy(text_duration) THEN text_duration
                             ELSE tier.duration,
        temperature |-> IF Truthy(text_temp) THEN text_temp ELSE tier.temperature,
        speed |-> IF text_speed # None THEN text_speed ELSE tier.speed,
        reverse |-> tier.reverse,
        is_turbo |-> tier.is_turbo,
        is_varoma |-> tier.is_varoma,
        tts_annotations |-> << >>,
        ingredient_annotations |-> << >>], LAMBDA st :
  Bind(_build_tts_annotation_from_step(st, loc), LAMBDA tts :
    IF tts # None THEN [st EXCEPT !.tts_annotations = <<tts[1]>>] ELSE st))))))

----------------------------------------------------------------------------
(* constants.py: units, fractions and tools *)

\* the end of the word w at position u of the lowercased text, when it is there
Word(low, u, w) == IF StartsWith(low, u, w) THEN <<u + Len(w)>> ELSE << >>
\* w with an optional final s: the ends in the order the pattern tries them
WordS(low, u, w) ==
  IF ~StartsWith(low, u, w) THEN << >>
  ELSE IF StartsWith(low, u + Len(w), <<"s">>) THEN <<u + Len(w) + 1, u + Len(w)>>
  ELSE <<u + Len(w)>>
\* \w+
RECURSIVE SkipWord(_, _)
SkipWord(s, i) == IF i <= Len(s) /\ IsWordChar(s[i]) THEN SkipWord(s, i + 1) ELSE i
\* c\.\s*à\s*[sc]
SpoonAbbreviation(low, u) ==
  LET a == SkipSpaces(low, u + 2)
      b == SkipSpaces(low, a + 1)
  IN IF StartsWith(low, u, <<"c",".">>) /\ StartsWith(low, a, <<"à">>)
        /\ b <= Len(low) /\ low[b] \in {"s", "c"}
     THEN <<b + 1>> ELSE << >>
\* cuillère[s]?\s*à\s*\w+ : every end the greedy \w+ can give back, longest first
SpoonWord(low, u) ==
  LET stem == u + Len(<<"c","u","i","l","l","è","r","e">>)
      After(p) ==
        LET a == SkipSpaces(low, p)
            b == SkipSpaces(low, a + 1)
            e == SkipWord(low, b)
        IN IF StartsWith(low, a, <<"à">>) /\ e > b THEN [k \in 1..(e - b) |-> e - k + 1]
           ELSE << >>
  IN IF ~StartsWith(low, u, <<"c","u","i","l","l","è","r","e">>) THEN << >>
     ELSE (IF StartsWith(low, stem, <<"s">>) THEN After(stem + 1) ELSE << >>) \o After(stem)
\* l\b
LitreLetter(low, u) ==
  IF StartsWith(low, u, <<"l">>) /\ (u = Len(low) \/ ~IsWordChar(low[u + 1]))
  THEN <<u + 1>> ELSE << >>

\* UNITS_PATTERN at position u of the lowercased text (the patterns that use it
\* ignore case): the positions after each way the alternation can match, in the
\* order the regular expression tries them
UNITS_PATTERN(low, u) ==
  WordS(low, u, <<"t","a","b","l","e","s","p","o","o","n">>) \o Word(low, u, <<"t","b","s","p">>) \o WordS(low, u, <<"t","e","a","s","p","o","o","n">>)
  \o Word(low, u, <<"t","s","p">>) \o WordS(low, u, <<"c","u","p">>) \o WordS(low, u, <<"o","u","n","c","e">>)
  \o Word(low, u, <<"o","z">>) \o WordS(low, u, <<"p","o","u","n","d">>) \o WordS(low, u, <<"l","b">>)
  \o Word(low, u, <<"p","i","n","c","h">>) \o WordS(low, u, <<"s","l","i","c","e">>) \o WordS(low, u, <<"l","e","a","v","e">>)
  \o WordS(low, u, <<"c","l","o","v","e">>) \o Word(low, u, <<"b","u","n","c","h">>) \o WordS(low, u, <<"s","p","r","i","g">>)
  \o WordS(low, u, <<"s","t","i","c","k">>) \o WordS(low, u, <<"c","a","n">>) \o WordS(low, u, <<"p","i","e","c","e">>)
  \o WordS(low, u, <<"g","r","a","m","m","e">>) \o WordS(low, u, <<"k","i","l","o","g","r","a","m","m","e">>) \o WordS(low, u, <<"l","i","t","r","e">>)
  \o Word(low, u, <<"k","g">>) \o Word(low, u, <<"m","l">>) \o Word(low, u, <<"c","l">>) \o Word(low, u, <<"g">>)
  \o SpoonAbbreviation(low, u) \o SpoonWord(low, u)
  \o WordS(low, u, <<"p","i","n","c","é","e">>) \o WordS(low, u, <<"s","a","c","h","e","t">>) \o WordS(low, u, <<"t","r","a","n","c","h","e">>)
  \o WordS(low, u, <<"f","e","u","i","l","l","e">>)
  \o LitreLetter(low, u)

UNIT_MAP == <<
    [key |-> <<"g","r","a","m","m","e">>, value |-> <<"g">>],
    [key |-> <<"g","r","a","m","m","e","s">>, value |-> <<"g">>],
    [key |-> <<"k","i","l","o","g","r","a","m","m","e">>, value |-> <<"k","g">>],
    [key |-> <<"k","i","l","o","g","r","a","m","m","e","s">>, value |-> <<"k","g">>],
    [key |-> <<"l","i","t","r","e">>, value |-> <<"l">>],
    [key |-> <<"l","i","t","r","e","s">>, value |-> <<"l">>],
    [key |-> <<"t","a","b","l","e","s","p","o","o","n">>, value |-> <<"t","b","s","p">>],
    [key |-> <<"t","a","b","l","e","s","p","o","o","n","s">>, value |-> <<"t","b","s","p">>],
    [key |-> <<"t","e","a","s","p","o","o","n">>, value |-> <<"t","s","p">>],
    [key |-> <<"t","e","a","s","p","o","o","n","s">>, value |-> <<"t","s","p">>],
    [key |-> <<"o","u","n","c","e">>, value |-> <<"o","z">>],
    [key |-> <<"o","u","n","c","e","s">>, value |-> <<"o","z">>],
    [key |-> <<"p","o","u","n","d">>, value |-> <<"l","b">>],
    [key |-> <<"p","o","u","n","d","s">>, value |-> <<"l","b">>],
    [key |-> <<"l","b","s">>, value |-> <<"l","b">>],
    [key |-> <<"c","u","p">>, value |-> <<"c","u","p">>],
    [key |-> <<"c","u","p","s">>, value |-> <<"c","u","p">>]
  >>

FRACTION_MAP == <<
    [key |-> <<"0",".","2","5">>, value |-> <<"¼">>],
    [key |-> <<"0",".","3","3">>, value |-> <<"ONE_THIRD">>],
    [key |-> <<"0",".","5">>, value |-> <<"½">>],
    [key |-> <<"0",".","6","6">>, value |-> <<"TWO_THIRDS">>],
    [key |-> <<"0",".","7","5">>, value |-> <<"¾">>]
  >>

TOOL_KEYWORDS == <<
    [tool |-> <<"F","o","u","r">>,
     keywords |-> {<<"f","o","u","r">>, <<"e","n","f","o","u","r","n","e","r">>, <<"o","v","e","n">>, <<"b","a","k","e">>, <<"b","a","k","i","n","g">>, <<"p","r","e","c","h","a","u","f","f","e","r">>, <<"p","r","e","h","e","a","t">>}],
    [tool |-> <<"V","a","r","o","m","a">>,
     keywords |-> {<<"v","a","r","o","m","a">>, <<"v","a","p","e","u","r">>, <<"s","t","e","a","m">>, <<"s","t","e","a","m","i","n","g">>}],
    [tool |-> <<"F","o","u","e","t"," ","p","a","p","i","l","l","o","n">>,
     keywords |-> {<<"f","o","u","e","t"," ","p","a","p","i","l","l","o","n">>, <<"b","u","t","t","e","r","f","l","y">>, <<"b","u","t","t","e","r","f","l","y"," ","w","h","i","s","k">>, <<"m","o","n","t","e","r"," ","e","n"," ","n","e","i","g","e">>,
                   <<"c","h","a","n","t","i","l","l","y">>, <<"c","r","e","m","e"," ","f","o","u","e","t","t","e","e">>, <<"w","h","i","p","p","e","d"," ","c","r","e","a","m">>, <<"s","t","i","f","f"," ","p","e","a","k","s">>,
                   <<"s","o","f","t"," ","p","e","a","k","s">>}],
    [tool |-> <<"P","a","n","i","e","r"," ","d","e"," ","c","u","i","s","s","o","n">>,
     keywords |-> {<<"p","a","n","i","e","r"," ","d","e"," ","c","u","i","s","s","o","n">>, <<"s","t","e","a","m","i","n","g"," ","b","a","s","k","e","t">>, <<"s","t","e","a","m"," ","b","a","s","k","e","t">>}]
  >>

\* dict.get(key) on a table of key/value entries: None when the key is absent
Lookup(table, key) ==
  LET hits == {k \in 1..Len(table) : table[k].key = key}
  IN IF hits = {} THEN None ELSE Some(table[Min(hits)].value)

----------------------------------------------------------------------------
(* parse_ingredient *)

\* str.replace of one character
Replace(s, old, new) == [i \in 1..Len(s) |-> IF s[i] = old THEN new ELSE s[i]]

RECURSIVE GCD(_, _)
GCD(a, b) == IF b = 0 THEN a ELSE GCD(b, a % b)
\* a float that is the quotient of two integers, as a fraction in lowest terms
Rational(n, d) == [num |-> n \div GCD(n, d), den |-> d \div GCD(n, d)]
RECURSIVE Pow10(_)
Pow10(k) == IF k = 0 THEN 1 ELSE 10 * Pow10(k - 1)

\* float() accepts g: digits with at most one ".", and at least one digit
IsFloat(g) == FloatOk(g) /\ \A i \in 1..Len(g) : IsNumChar(g[i])
\* float(g) for a g that float() accepts
Float(g) ==
  LET dots == {i \in 1..Len(g) : g[i] = "."}
      d == IF dots = {} THEN Len(g) + 1 ELSE Min(dots)
  IN Rational(ParseInt(SubSeq(g, 1, d - 1) \o SubSeq(g, d + 1, Len(g))),
              Pow10(IF dots = {} THEN 0 ELSE Len(g) - d))

_normalize_unit(unit) ==
  IF unit = None THEN None
  ELSE Bind(Lookup(UNIT_MAP, Lower(unit[1])), LAMBDA short :
         IF short # None THEN short ELSE unit)

\* round(val - whole, 2) in hundredths, from the digits after the "."; a third
\* digit 5 followed by nothing is rounded to the even neighbour
RoundHundredths(frac) ==
  LET Digit(k) == IF k <= Len(frac) THEN DigitValue(frac[k]) ELSE 0
      h == 10 * Digit(1) + Digit(2)
      rest == \E k \in 4..Len(frac) : frac[k] # "0"
  IN IF Digit(3) > 5 \/ (Digit(3) = 5 /\ rest) THEN h + 1
     ELSE IF Digit(3) = 5 /\ h % 2 = 1 THEN h + 1
     ELSE h
\* f"{decimal:.2g}" of a decimal of h hundredths, 0 < h <= 100
TwoSignificant(h) ==
  IF h = 100 THEN <<"1">>
  ELSE IF h % 10 = 0 THEN <<"0",".">> \o IntToStr(h \div 10)
  ELSE <<"0",".">> \o IntToStr(h \div 10) \o IntToStr(h % 10)

\* mutant of _normalize_quantity: only the exact keys of the fraction table are
\* replaced, a decimal with an integer part is left as it is
NormalizeQuantityExactOnly(qty) ==
  IF qty = None THEN None
  ELSE Bind(Strip(qty[1]), LAMBDA q :
       Bind(Lookup(FRACTION_MAP, q), LAMBDA known :
         IF known # None THEN known ELSE Some(q)))
_normalize_quantity(qty) ==
  IF qty = None THEN None
  ELSE Bind(Strip(qty[1]), LAMBDA q :
       Bind(Lookup(FRACTION_MAP, q), LAMBDA known :
       Bind(Replace(q, ",", "."), LAMBDA g :
       Bind(IF \E i \in 1..Len(g) : g[i] = "."
            THEN Min({i \in 1..Len(g) : g[i] = "."}) ELSE Len(g) + 1, LAMBDA d :
       Bind(RoundHundredths(SubSeq(g, d + 1, Len(g))), LAMBDA decimal :
       Bind(Lookup(FRACTION_MAP, TwoSignificant(decimal)), LAMBDA fraction :
         IF known # None THEN known
         ELSE IF IsFloat(g) /\ decimal > 0 /\ fraction # None
              THEN Bind(ParseInt(SubSeq(g, 1, d - 1)), LAMBDA whole :
                     IF whole > 0 THEN Some(IntToStr(whole) \o <<" ">> \o fraction[1])
                     ELSE fraction)
         ELSE Some(q)))))))

\* None for the ValueError of float() and for the ZeroDivisionError
_parse_numeric_quantity(raw_qty) ==
  IF raw_qty = None THEN None
  ELSE Bind(Strip(Replace(raw_qty[1], ",", ".")), LAMBDA c :
       Bind({i \in 1..Len(c) : c[i] = "/"}, LAMBDA slashes :
         IF slashes # {}
         THEN Bind(Min(slashes), LAMBDA first :
              Bind({i \in slashes : i > first}, LAMBDA later :
              Bind(SubSeq(c, 1, first - 1), LAMBDA p0 :
              Bind(SubSeq(c, first + 1, IF later = {} THEN Len(c) ELSE Min(later) - 1),
                   LAMBDA p1 :
                IF IsFloat(p0) /\ IsFloat(p1)
                THEN Bind(Float(p0), LAMBDA numerator :
                     Bind(Float(p1), LAMBDA denominator :
                       IF denominator.num # 0
                       THEN Some(Rational(numerator.num * denominator.den,
                                          numerator.den * denominator.num))
                       ELSE None))
                ELSE None))))
         ELSE IF IsFloat(c) THEN Some(Float(c)) ELSE None))

\* [\d/.,]
IsQuantityChar(c) == IsDigit(c) \/ c \in {"/", ".", ","}
RECURSIVE SkipQuantity(_, _)
SkipQuantity(s, i) ==
  IF i <= Len(s) /\ IsQuantityChar(s[i]) THEN SkipQuantity(s, i + 1) ELSE i

Ingredient(name, raw_qty, unit) ==
  [name |-> name,
   quantity |-> _normalize_quantity(raw_qty),
   unit |-> _normalize_unit(unit),
   quantity_numeric |-> _parse_numeric_quantity(raw_qty),
   quantity_max |-> None]

\* ^(.+?)\s*[-–]\s*([\d/.,]+)\s*(UNITS)?\s*$  with group 1 ending at p: the
\* groups, or matched = FALSE
DashGrammarAt(text, low, p) ==
  Bind(SkipSpaces(text, p + 1), LAMBDA d :
  Bind(SkipSpaces(text, d + 1), LAMBDA q :
  Bind(SkipQuantity(text, q), LAMBDA e :
  Bind(SkipSpaces(text, e), LAMBDA u :
  Bind(UNITS_PATTERN(low, u), LAMBDA units :
  Bind({k \in 1..Len(units) : SkipSpaces(text, units[k]) > Len(text)}, LAMBDA ok :
    [matched |-> /\ d <= Len(text)
                 /\ text[d] \in {"-", "EN_DASH"}
                 /\ e > q
                 /\ (ok # {} \/ u > Len(text)),
     name |-> SubSeq(text, 1, p),
     raw_qty |-> SubSeq(text, q, e - 1),
     unit |-> IF ok # {} THEN Some(SubSeq(text, u, units[Min(ok)] - 1)) ELSE None]))))))

\* (?:de\s+|d['']|of\s+)?\s* at position c, before a (.+) that needs a character
LeadingConnectorEnd(text, low, c) ==
  LET After(w) == SkipSpaces(low, c + Len(w))
  IN IF StartsWith(low, c, <<"d","e">>) /\ After(<<"d","e">>) > c + 2 /\ After(<<"d","e">>) <= Len(text)
     THEN After(<<"d","e">>)
     ELSE IF StartsWith(low, c, <<"d","'">>) /\ After(<<"d","'">>) <= Len(text) THEN After(<<"d","'">>)
     ELSE IF StartsWith(low, c, <<"o","f">>) /\ After(<<"o","f">>) > c + 2 /\ After(<<"o","f">>) <= Len(text)
     THEN After(<<"o","f">>)
     ELSE c

\* ^([\d/.,]+) when \s*(UNITS)?\s*(?:de\s+|d['']|of\s+)?\s*(.+)$ follows: the position
\* after the longest run that leaves a character to the name; 1 when none does
LeadingQuantityEnd(text) ==
  IF SkipQuantity(text, 1) > Len(text) THEN Max({Len(text), 1})
  ELSE SkipQuantity(text, 1)
\* the groups of the leading-quantity grammar when its quantity ends before e:
\* the unit is the first way of UNITS_PATTERN that leaves a character to the name
LeadingGrammar(text, low, e) ==
  Bind(SkipSpaces(text, e), LAMBDA u :
  Bind(UNITS_PATTERN(low, u), LAMBDA units :
  Bind({k \in 1..Len(units) : units[k] <= Len(text)}, LAMBDA ok :
  Bind(SkipSpaces(text, IF ok # {} THEN units[Min(ok)] ELSE u), LAMBDA c :
    [name |-> SubSeq(text, LeadingConnectorEnd(text, low, c), Len(text)),
     raw_qty |-> SubSeq(text, 1, e - 1),
     unit |-> IF ok # {} THEN Some(SubSeq(text, u, units[Min(ok)] - 1)) ELSE None]))))

\* mutant of parse_ingredient: the leading-quantity grammar is tried first
ParseIngredientLeadingFirst(raw) ==
  Bind(Strip(raw), LAMBDA text :
  Bind(Lower(text), LAMBDA low :
  Bind({p \in 1..Len(text) : DashGrammarAt(text, low, p).matched}, LAMBDA dashes :
  Bind(LeadingQuantityEnd(text), LAMBDA e :
    IF e > 1
    THEN Bind(LeadingGrammar(text, low, e), LAMBDA leading :
           Ingredient(Strip(leading.name), Some(leading.raw_qty), leading.unit))
    ELSE IF dashes # {}
         THEN Bind(DashGrammarAt(text, low, Min(dashes)), LAMBDA dash :
                Ingredient(Strip(dash.name), Some(dash.raw_qty), dash.unit))
    ELSE Ingredient(text, None, None)))))
parse_ingredient(raw) ==
  Bind(Strip(raw), LAMBDA text :
  Bind(Lower(text), LAMBDA low :
  Bind({p \in 1..Len(text) : DashGrammarAt(text, low, p).matched}, LAMBDA dashes :
  Bind(LeadingQuantityEnd(text), LAMBDA e :
    IF dashes # {}
    THEN Bind(DashGrammarAt(text, low, Min(dashes)), LAMBDA dash :
           Ingredient(Strip(dash.name), Some(dash.raw_qty), dash.unit))
    ELSE IF e > 1
         THEN Bind(LeadingGrammar(text, low, e), LAMBDA leading :
                Ingredient(Strip(leading.name), Some(leading.raw_qty), leading.unit))
    ELSE Ingredient(text, None, None)))))

\* Ingredient.to_text
ingredient_to_text(ing, loc) ==
  LET name == IF ing.name # << >> THEN <<LowerChar(ing.name[1])>> \o Tail(ing.name)
              ELSE ing.name
      quantity == ing.quantity # None /\ ing.quantity[1] # << >>
      unit == ing.unit # None /\ ing.unit[1] # << >>
      vowels == {"a","e","i","o","u","y","à","â","é","è","ê","ë","ï","î","ô","ù","û","ü",
                 "A","E","I","O","U","Y"}
  IN IF quantity /\ unit
     THEN IF IsFrench(loc)
          THEN IF name # << >> /\ name[1] \in vowels
               THEN ing.quantity[1] \o <<" ">> \o ing.unit[1] \o <<" ","d","'">> \o name
               ELSE ing.quantity[1] \o <<" ">> \o ing.unit[1] \o <<" ","d","e"," ">> \o name
          ELSE ing.quantity[1] \o <<" ">> \o ing.unit[1] \o <<" ">> \o name
     ELSE IF quantity THEN ing.quantity[1] \o <<" ">> \o name
     ELSE name

----------------------------------------------------------------------------
(* Quantity erasure and ingredient mentions *)

\* [\d¼½¾⅓⅔] and [\d/.,¼½¾⅓⅔] of _QTY_START
IsQtyStart(c) == IsDigit(c) \/ c \in {"¼", "½", "¾", "ONE_THIRD", "TWO_THIRDS"}
IsQtyRest(c) == IsQtyStart(c) \/ c \in {"/", ".", ","}
RECURSIVE SkipQtyRest(_, _)
SkipQtyRest(s, i) == IF i <= Len(s) /\ IsQtyRest(s[i]) THEN SkipQtyRest(s, i + 1) ELSE i

_french_article(name) ==
  LET low == IF name # << >> THEN <<LowerChar(name[1])>> \o Tail(name) ELSE name
      vowels == {"a","e","i","o","u","y","à","â","é","è","ê","ë","ï","î","ô","ù","û","ü","h"}
  IN IF low # << >> /\ low[1] \in vowels THEN <<"l","'">> \o low ELSE <<"l","e"," ">> \o low

\* (?:de\s+|d['']\s*)?name at position c: the position after the name, 0 when
\* the name follows none of the alternatives
NameEnd(low, c, name) ==
  LET de == SkipSpaces(low, c + 2)
  IN IF StartsWith(low, c, <<"d","e">>) /\ de > c + 2 /\ StartsWith(low, de, name)
     THEN de + Len(name)
     ELSE IF StartsWith(low, c, <<"d","'">>) /\ StartsWith(low, de, name) THEN de + Len(name)
     ELSE IF StartsWith(low, c, name) THEN c + Len(name)
     ELSE 0
\* \s*(?:UNITS)?\s*(?:de\s+|d['']\s*)?name after a quantity that ends before e
UnitNameEnd(low, e, name) ==
  Bind(SkipSpaces(low, e), LAMBDA u :
  Bind(UNITS_PATTERN(low, u) \o <<u>>, LAMBDA units :
  Bind([k \in 1..Len(units) |-> NameEnd(low, SkipSpaces(low, units[k]), name)],
       LAMBDA ends :
  Bind({k \in 1..Len(units) : ends[k] # 0}, LAMBDA ok :
    IF ok = {} THEN 0 ELSE ends[Min(ok)]))))
\* the pattern of _strip_ingredient_quantities at position i: the position
\* after the match (the quantity run is greedy and gives back), 0 when none
QuantityPhraseEnd(low, i, name) ==
  IF ~IsQtyStart(low[i]) THEN 0
  ELSE Bind([e \in (i + 1)..SkipQtyRest(low, i + 1) |-> UnitNameEnd(low, e, name)],
            LAMBDA ends :
       Bind({e \in DOMAIN ends : ends[e] # 0}, LAMBDA ok :
         IF ok = {} THEN 0 ELSE ends[Max(ok)]))

\* sorted(ingredients, key=lambda i: len(i.name), reverse=True): a stable sort
RECURSIVE SortedByNameLength(_)
SortedByNameLength(ingredients) ==
  IF ingredients = << >> THEN << >>
  ELSE LET n == Len(ingredients)
           before == SortedByNameLength(SubSeq(ingredients, 1, n - 1))
           last == ingredients[n]
           k == Cardinality({j \in 1..(n - 1) : Len(before[j].name) >= Len(last.name)})
       IN SubSeq(before, 1, k) \o <<last>> \o SubSeq(before, k + 1, n - 1)

\* the loop of _strip_ingredient_quantities from the k-th sorted ingredient on
RECURSIVE StripFromIngredient(_, _, _, _)
StripFromIngredient(text, sorted_ings, loc, k) ==
  IF k > Len(sorted_ings) THEN text
  ELSE LET name == sorted_ings[k].name
           low == Lower(text)
           replacement == IF IsFrench(loc) THEN _french_article(name)
                          ELSE <<LowerChar(name[1])>> \o Tail(name)
       IN IF name = << >> THEN StripFromIngredient(text, sorted_ings, loc, k + 1)
          ELSE StripFromIngredient(
                 SubFrom(text, [i \in 1..Len(text) |-> QuantityPhraseEnd(low, i, Lower(name))],
                         replacement, 1),
                 sorted_ings, loc, k + 1)
_strip_ingredient_quantities(text, ingredients, loc) ==
  StripFromIngredient(text, SortedByNameLength(ingredients), loc, 1)

\* mutant of Find: the index of the last occurrence
FindLast(s, w) ==
  LET at == {i \in 1..(Len(s) - Len(w) + 1) : StartsWith(s, i, w)}
  IN IF at = {} THEN -1 ELSE Max(at) - 1
\* str.find: the 0-based index of the first occurrence, -1 when there is none
Find(s, w) ==
  LET at == {i \in 1..(Len(s) - Len(w) + 1) : StartsWith(s, i, w)}
  IN IF at = {} THEN -1 ELSE Min(at) - 1

RECURSIVE MentionsFrom(_, _, _)
MentionsFrom(text_lower, ingredients, k) ==
  IF k > Len(ingredients) THEN << >>
  ELSE LET idx == Find(text_lower, Lower(ingredients[k].name))
       IN (IF idx # -1
           THEN <<[position |-> [offset |-> idx, length |-> Len(ingredients[k].name)],
                   ingredient |-> ingredients[k]]>>
           ELSE << >>)
          \o MentionsFrom(text_lower, ingredients, k + 1)
_find_ingredient_mentions(text, ingredients) == MentionsFrom(Lower(text), ingredients, 1)

----------------------------------------------------------------------------
(* convert_recipe *)

\* sep.join(parts)
RECURSIVE JoinWith(_, _)
JoinWith(sep, parts) ==
  IF parts = << >> THEN << >>
  ELSE IF Len(parts) = 1 THEN parts[1]
  ELSE parts[1] \o sep \o JoinWith(sep, Tail(parts))

RECURSIVE ToolsFrom(_, _)
ToolsFrom(text, k) ==
  IF k > Len(TOOL_KEYWORDS) THEN << >>
  ELSE (IF \E kw \in TOOL_KEYWORDS[k].keywords : Contains(text, kw)
        THEN <<TOOL_KEYWORDS[k].tool>> ELSE << >>)
       \o ToolsFrom(text, k + 1)
\* mutant of _detect_tools: the joined text is lowercased but keeps its accents
DetectToolsAccented(instructions) ==
  <<<<"T","M","7">>>> \o ToolsFrom(Lower(JoinWith(<<" ">>, instructions)), 1)
_detect_tools(instructions) ==
  <<<<"T","M","7">>>> \o ToolsFrom(_strip_accents(Lower(JoinWith(<<" ">>, instructions))), 1)

\* lines 479-485: the second pass over one converted step
SecondPass(st, ingredients, loc) ==
  Bind([st EXCEPT !.description =
          _strip_ingredient_quantities(st.description, ingredients, loc)], LAMBDA erased :
    [erased EXCEPT !.ingredient_annotations =
       _find_ingredient_mentions(to_text(erased, loc), ingredients)])

\* Python's "value or default" on an Optional[int]
OrDefault(o, default) == IF Truthy(o) THEN o[1] ELSE default

\* convert_recipe raises when convert_step raises on one of the instructions
convert_recipe_raises(scraped_recipe) ==
  \E k \in 1..Len(scraped_recipe.instructions) :
    convert_step_raises(scraped_recipe.instructions[k])

\* the ThermomixRecipe convert_recipe returns when it returns
convert_recipe(scraped_recipe, loc) ==
  Bind([k \in 1..Len(scraped_recipe.ingredients) |->
          parse_ingredient(scraped_recipe.ingredients[k])], LAMBDA ingredients :
  Bind([k \in 1..Len(scraped_recipe.instructions) |->
          SecondPass(convert_step(scraped_recipe.instructions[k], loc),
                     ingredients, loc)], LAMBDA steps :
    [name |-> scraped_recipe.title,
     ingredients |-> ingredients,
     steps |-> steps,
     servings |-> OrDefault(scraped_recipe.servings, 4),
     prep_time_minutes |-> OrDefault(scraped_recipe.prep_time, 15),
     total_time_minutes |-> OrDefault(scraped_recipe.total_time, 45),
     hints |-> IF scraped_recipe.source_url # << >>
               THEN <<<<"O","r","i","g","i","n","a","l"," ","r","e","c","i","p","e",":"," ">> \o scraped_recipe.source_url>> ELSE << >>,
     tools |-> _detect_tools(scraped_recipe.instructions),
     source_url |-> scraped_recipe.source_url,
     locale |-> loc]))

\* TTSAnnotation.to_cookidoo_annotation; a key the code leaves out of "data" is
\* None here
tts_to_cookidoo_annotation(tts) ==
  [type |-> "TTS",
   position |-> [offset |-> tts.position.offset, length |-> tts.position.length],
   data |-> [speed |-> tts.speed,
             time |-> tts.time,
             temperature |-> IF tts.temperature_value # None
                             THEN Some([value |-> tts.temperature_value[1],
                                        unit |-> tts.temperature_unit])
                             ELSE None]]
\* IngredientAnnotation.to_cookidoo_annotation
ingredient_to_cookidoo_annotation(ann, loc) ==
  [type |-> "INGREDIENT",
   position |-> [offset |-> ann.position.offset, length |-> ann.position.length],
   data |-> [description |-> [text |-> ingredient_to_text(ann.ingredient, loc),
                              annotations |-> << >>]]]
\* ThermomixStep.build_annotations: the INGREDIENT annotations, then the TTS ones
build_annotations(st, loc) ==
  [k \in 1..Len(st.ingredient_annotations) |->
     ingredient_to_cookidoo_annotation(st.ingredient_annotations[k], loc)]
  \o [k \in 1..Len(st.tts_annotations) |->
        tts_to_cookidoo_annotation(st.tts_annotations[k])]

\* ThermomixRecipe.to_cookidoo_payload
to_cookidoo_payload(thermomix_recipe) ==
  LET lang == thermomix_recipe.locale
  IN [name |-> thermomix_recipe.name,
      tools |-> thermomix_recipe.tools,
      yield |-> [value |-> thermomix_recipe.servings,
                 unitText |-> IF IsFrench(lang) THEN <<"p","o","r","t","i","o","n">> ELSE <<"s","e","r","v","i","n","g">>],
      prepTime |-> thermomix_recipe.prep_time_minutes * 60,
      cookTime |-> 0,
      totalTime |-> thermomix_recipe.total_time_minutes * 60,
      ingredients |-> [k \in 1..Len(thermomix_recipe.ingredients) |->
                         [type |-> "INGREDIENT",
                          text |-> ingredient_to_text(thermomix_recipe.ingredients[k], lang)]],
      instructions |-> [k \in 1..Len(thermomix_recipe.steps) |->
                          [type |-> "STEP",
                           text |-> to_text(thermomix_recipe.steps[k], lang),
                           annotations |-> build_annotations(thermomix_recipe.steps[k], lang),
                           missedUsages |-> << >>]],
      hints |-> JoinWith(<<"\n">>, thermomix_recipe.hints)]

----------------------------------------------------------------------------
(* Input texts: concatenations of at most MaxFragments fragments *)

MaxFragments == 3
MaxLines == 2
MaxCalls == 3

RECURSIVE TextsOf(_, _)
TextsOf(frags, n) ==
  IF n = 0 THEN {<< >>}
  ELSE TextsOf(frags, n - 1) \cup {t \o f : t \in TextsOf(frags, n - 1), f \in frags}

StepFragments == {
    <<"M","é","l","a","n","g","e","r"," ">>,
    <<"m","i","x","e","r"," ","f","i","n","e","m","e","n","t"," ">>,
    <<"c","u","i","r","e"," ">>,
    <<"V","a","r","o","m","a"," ">>,
    <<"1","8","0","°","C"," ">>,
    <<"1","0"," ","m","i","n","u","t","e","s"," ">>,
    <<"v","i","t","e","s","s","e"," ","1","2"," ">>,
    <<"v","i","t","e","s","s","e",".">>
  }
StepTexts == TextsOf(StepFragments, MaxFragments)

TemperatureFragments == {
    <<"m","i","j","o","t","e","r"," ">>,
    <<"M","é","l","a","n","g","e","r"," ">>,
    <<"V","a","r","o","m","a"," ">>,
    <<"1","8","0","°","C"," ">>,
    <<"8","0","°","C"," ">>,
    <<"2","0","°"," ">>,
    <<"1","0"," ","m","i","n","u","t","e","s"," ">>,
    <<"v","i","t","e","s","s","e"," ","4"," ">>
  }
TemperatureTexts == TextsOf(TemperatureFragments, MaxFragments)

MixingFragments == {
    <<"M","é","l","a","n","g","e","r"," ">>,
    <<"i","n","c","o","r","p","o","r","e","r"," ">>,
    <<"m","i","x","e","r"," ">>,
    <<"l","e"," ","s","u","c","r","e"," ">>,
    <<"c","u","i","r","e"," ">>,
    <<"5"," ","s","e","c"," ">>,
    <<"v","i","t","e","s","s","e"," ","4"," ">>,
    <<"m","i","x","e","r"," ","f","i","n","e","m","e","n","t"," ">>
  }
MixingTexts == TextsOf(MixingFragments, MaxFragments)

CleanFragments == {
    <<"S","e","r","v","i","r">>,
    <<".">>,
    <<".",".",".">>,
    <<" ","5"," ","s","e","c","/","v","i","t","e","s","s","e"," ","5">>,
    <<" ","d","u"," ","T","h","e","r","m","o","m","i","x">>,
    <<" ","d","a","n","s"," ","l","e"," ","T","h","e","r","m","o","m","i","x">>,
    <<" ","(","1","0","0","°","C",","," ","s","p","e","e","d"," ","1",")">>,
    <<"v","i","t","e","s","s","e"," ">>
  }
CleanTexts == TextsOf(CleanFragments, MaxFragments)

----------------------------------------------------------------------------
(* convert_step called on one step text *)

\* the state before convert_step(step_text, locale) runs
StepCall(texts) ==
  /\ pc = "call"
  /\ step_text \in texts
  /\ locale \in {fr, en}
  /\ step = None
  /\ rendered = None
  /\ cleaned = << >>
  /\ scraped = None
  /\ recipe = None
  /\ calls = << >>
  /\ ServerIdle

SteamFragments == {
    <<"C","u","i","r","e"," ">>,
    <<"à"," ","l","a"," ","v","a","p","e","u","r"," ">>,
    <<"S","t","e","a","m"," ">>,
    <<"a","u"," ","V","A","R","O","M","A"," ">>,
    <<"m","i","x","e","r"," ","f","i","n","e","m","e","n","t"," ">>,
    <<"M","é","l","a","n","g","e","r"," ">>,
    <<"s","i","m","m","e","r"," ">>,
    <<"1","0"," ","m","i","n"," ">>
  }
SteamTexts == TextsOf(SteamFragments, MaxFragments)
DurationFragments == {
    <<"M","i","x","e","r"," ","f","i","n","e","m","e","n","t"," ">>,
    <<"F","o","u","e","t","t","e","r"," ">>,
    <<"C","u","i","r","e"," ">>,
    <<"1","0"," ","m","i","n"," ">>,
    <<"3","0"," ","s","e","c","o","n","d","e","s"," ">>,
    <<"1"," ","h"," ","3","0"," ">>,
    <<"2"," ","h","e","u","r","e","s"," ">>,
    <<"0"," ","m","i","n"," ">>
  }
DurationTexts == TextsOf(DurationFragments, MaxFragments)
\* the step texts that are exactly one keyword of the cooking or mixing table
KeywordTexts ==
  {COOKING_KEYWORDS[k].keyword : k \in 1..Len(COOKING_KEYWORDS)}
    \cup {MIXING_KEYWORDS[k].keyword : k \in 1..Len(MIXING_KEYWORDS)}
InitStep == StepCall(StepTexts)
InitTemperature == StepCall(TemperatureTexts)
InitMixing == StepCall(MixingTexts)
InitSteam == StepCall(SteamTexts)
InitDuration == StepCall(DurationTexts)
InitKeywords == StepCall(KeywordTexts)

ConvertStep ==
  /\ pc = "call"
  /\ IF convert_step_raises(step_text)
     THEN pc' = "raised" /\ step' = None
     ELSE pc' = "returned" /\ step' = convert_step(step_text, locale)
  /\ UNCHANGED <<step_text, locale, rendered, cleaned, scraped, recipe, calls, server>>

NextStep == ConvertStep
SpecStep == InitStep /\ [][NextStep]_vars
SpecTemperature == InitTemperature /\ [][NextStep]_vars
SpecMixing == InitMixing /\ [][NextStep]_vars
SpecSteam == InitSteam /\ [][NextStep]_vars
SpecDuration == InitDuration /\ [][NextStep]_vars
SpecKeywords == InitKeywords /\ [][NextStep]_vars

----------------------------------------------------------------------------
(* _clean_description applied to a step text, then to its own result *)

InitClean ==
  /\ pc = "clean"
  /\ step_text \in CleanTexts
  /\ locale = fr
  /\ step = None
  /\ rendered = None
  /\ cleaned = << >>
  /\ scraped = None
  /\ recipe = None
  /\ calls = << >>
  /\ ServerIdle

Clean ==
  /\ pc = "clean"
  /\ cleaned = << >>
  /\ scraped = None
  /\ recipe = None
  /\ calls = << >>
  /\ cleaned' = <<_clean_description(step_text)>>
  /\ UNCHANGED <<pc, step_text, locale, step, rendered, scraped, recipe, calls, server>>

CleanAgain ==
  /\ pc = "clean"
  /\ Len(cleaned) = 1
  /\ cleaned' = Append(cleaned, _clean_description(cleaned[1]))
  /\ UNCHANGED <<pc, step_text, locale, step, rendered, scraped, recipe, calls, server>>

NextClean == Clean \/ CleanAgain
SpecClean == InitClean /\ [][NextClean]_vars

----------------------------------------------------------------------------
(* Rendering of a step with any combination of its fields                  *)
(* (ThermomixStep.to_text and _build_tts_annotation_from_step)             *)

RenderSteps ==
  [description : {<<"M","i","x">>},
   duration_seconds : {None, Some(0), Some(15), Some(90), Some(600)},
   temperature : {None, Some(100)},
   speed : {None, Some(3)},
   reverse : {FALSE},
   is_turbo : BOOLEAN,
   is_varoma : BOOLEAN,
   tts_annotations : {<< >>},
   ingredient_annotations : {<< >>}]

InitRender ==
  /\ pc = "render"
  /\ step_text = << >>
  /\ locale \in {fr, en}
  /\ step \in RenderSteps
  /\ rendered = None
  /\ cleaned = << >>
  /\ scraped = None
  /\ recipe = None
  /\ calls = << >>
  /\ ServerIdle

Render ==
  /\ pc = "render"
  /\ pc' = "rendered"
  /\ step' = [step EXCEPT !.tts_annotations = _build_tts_annotation_from_step(step, locale)]
  /\ rendered' = Some(to_text(step', locale))
  /\ UNCHANGED <<step_text, locale, cleaned, scraped, recipe, calls, server>>

NextRender == Render
SpecRender == InitRender /\ [][NextRender]_vars

----------------------------------------------------------------------------
(* convert_recipe called on raw-recipe records *)

\* the optional fields of a ScrapedRecipe, absent or all provided
absent == [total_time |-> None, prep_time |-> None, servings |-> None,
           source_url |-> << >>]
provided == [total_time |-> Some(50), prep_time |-> Some(20), servings |-> Some(6),
             source_url |-> <<"x",".","f","r","/","t","a","r","t","e">>]
ScrapedRecipe(ingredients, instructions, optional) ==
  [title |-> <<"T","a","r","t","e">>,
   ingredients |-> ingredients,
   instructions |-> instructions,
   total_time |-> optional.total_time,
   prep_time |-> optional.prep_time,
   cook_time |-> None,
   servings |-> optional.servings,
   image_url |-> None,
   source_url |-> optional.source_url]

RECURSIVE ListsOf(_, _)
ListsOf(lines, n) ==
  IF n = 0 THEN {<< >>}
  ELSE ListsOf(lines, n - 1) \cup {l \o <<x>> : l \in ListsOf(lines, n - 1), x \in lines}

IngredientLines == {
    <<"2","0","0"," ","g"," ","d","e"," ","f","a","r","i","n","e">>,
    <<"O","i","g","n","o","n"," ","-"," ","1">>,
    <<"2"," ","o","e","u","f","s">>
  }
InstructionTexts == {
    <<"A","j","o","u","t","e","r"," ","2","0","0"," ","g"," ","d","e"," ","f","a","r","i","n","e"," ","e","t"," ","m","é","l","a","n","g","e","r">>,
    <<"C","u","i","r","e"," ","2"," ","o","e","u","f","s"," ","1","0"," ","m","i","n">>,
    <<"S","e","r","v","i","r"," ","1"," ","O","i","g","n","o","n",".">>,
    <<"M","i","x","e","r"," ","à"," ","v","i","t","e","s","s","e",".">>
  }
RecipeRecords ==
  {ScrapedRecipe(i, s, o) : i \in ListsOf(IngredientLines, MaxLines),
                            s \in ListsOf(InstructionTexts, MaxLines),
                            o \in {absent, provided}}
\* the records a caller converts again and again
CallRecords == {
    ScrapedRecipe(<<<<"2","0","0"," ","g"," ","d","e"," ","f","a","r","i","n","e">>>>, <<<<"A","j","o","u","t","e","r"," ","2","0","0"," ","g"," ","d","e"," ","f","a","r","i","n","e"," ","e","t"," ","m","é","l","a","n","g","e","r">>>>, provided),
    ScrapedRecipe(<<<<"O","i","g","n","o","n"," ","-"," ","1">>>>, <<<<"S","e","r","v","i","r"," ","1"," ","O","i","g","n","o","n",".">>>>, absent),
    ScrapedRecipe(<< >>, <<<<"M","i","x","e","r"," ","à"," ","v","i","t","e","s","s","e",".">>>>, provided)
  }

\* the state before convert_recipe(scraped, locale) runs
RecipeCall(records) ==
  /\ pc = "call"
  /\ step_text = << >>
  /\ locale \in {fr, en}
  /\ step = None
  /\ rendered = None
  /\ cleaned = << >>
  /\ scraped \in records
  /\ recipe = None
  /\ calls = << >>
  /\ ServerIdle

InitRecipe == RecipeCall(RecipeRecords)
InitCalls == RecipeCall(CallRecords)

\* mutant of ConvertRecipe: hints is a list shared by the calls (not the fresh
\* list of line 487), so a call adds its line to those of the calls before it
ConvertRecipeSharedHints ==
  /\ pc = "call"
  /\ IF convert_recipe_raises(scraped)
     THEN pc' = "raised" /\ recipe' = None
     ELSE /\ pc' = "returned"
          /\ LET new == convert_recipe(scraped, locale)
                 earlier == {k \in 1..Len(calls) : calls[k].recipe # None}
                 shared == IF earlier = {} THEN << >>
                           ELSE calls[Max(earlier)].recipe[1].hints
             IN recipe' = Some([new EXCEPT !.hints = shared \o new.hints])
  /\ calls' = Append(calls, [scraped |-> scraped, locale |-> locale, recipe |-> recipe'])
  /\ UNCHANGED <<step_text, locale, step, rendered, cleaned, scraped, server>>
\* one call of convert_recipe; calls records the record it was given, the locale
\* and what it returned (None when it raised)
ConvertRecipe ==
  /\ pc = "call"
  /\ IF convert_recipe_raises(scraped)
     THEN pc' = "raised" /\ recipe' = None
     ELSE pc' = "returned" /\ recipe' = Some(convert_recipe(scraped, locale))
  /\ calls' = Append(calls, [scraped |-> scraped, locale |-> locale, recipe |-> recipe'])
  /\ UNCHANGED <<step_text, locale, step, rendered, cleaned, scraped, server>>

\* the caller goes on with another conversion, of the same record or of another
NextCall ==
  /\ pc \in {"returned", "raised"}
  /\ Len(calls) < MaxCalls
  /\ pc' = "call"
  /\ scraped' \in CallRecords
  /\ locale' \in {fr, en}
  /\ recipe' = None
  /\ UNCHANGED <<step_text, step, rendered, cleaned, calls, server>>

NextRecipe == ConvertRecipe
SpecRecipe == InitRecipe /\ [][NextRecipe]_vars
NextCalls == ConvertRecipe \/ NextCall
SpecCalls == InitCalls /\ [][NextCalls]_vars

----------------------------------------------------------------------------
(* convert_recipe called on records whose instructions name tools *)

ToolLines == {
    <<"P","r","é","c","h","a","u","f","f","e","r"," ","l","e"," ","f","o","u","r">>,
    <<"C","u","i","r","e"," ","à"," ","l","a"," ","V","A","P","E","U","R">>,
    <<"M","o","n","t","e","r"," ","e","n">>,
    <<"n","e","i","g","e"," ","f","e","r","m","e">>,
    <<"A","j","o","u","t","e","r"," ","l","a"," ","c","r","è","m","e"," ","f","o","u","e","t","t","é","e">>,
    <<"S","t","e","a","m","i","n","g"," ","b","a","s","k","e","t">>,
    <<"S","e","r","v","i","r">>
  }
ToolRecords ==
  {ScrapedRecipe(<< >>, s, absent) : s \in ListsOf(ToolLines, MaxLines)}
InitTools == RecipeCall(ToolRecords)
SpecTools == InitTools /\ [][NextRecipe]_vars

----------------------------------------------------------------------------
(* convert_recipe called on ingredient lines of the two grammars *)

\* a quantity as a fraction in lowest terms
Q(n, d) == [num |-> n, den |-> d]
\* lines "<number> [<unit>] [de |d'|of ]<Name>", with the parts they are
\* written from and the value of the number
LeadingForms == {
    [number |-> <<"2","0","0">>, unit |-> <<"g">>, connector |-> <<"d","e"," ">>, name |-> <<"f","a","r","i","n","e">>, value |-> Q(200, 1)],
    [number |-> <<"2">>, unit |-> << >>, connector |-> << >>, name |-> <<"g","o","u","s","s","e","s"," ","d","'","a","i","l">>, value |-> Q(2, 1)],
    [number |-> <<"2","0">>, unit |-> <<"g">>, connector |-> <<"d","'">>, name |-> <<"h","u","i","l","e"," ","d","'","o","l","i","v","e">>, value |-> Q(20, 1)],
    [number |-> <<"1">>, unit |-> <<"l","i","t","r","e">>, connector |-> <<"o","f"," ">>, name |-> <<"m","i","l","k">>, value |-> Q(1, 1)],
    [number |-> <<"3">>, unit |-> << >>, connector |-> << >>, name |-> <<"o","e","u","f","s">>, value |-> Q(3, 1)],
    [number |-> <<"1",",","5">>, unit |-> <<"k","g">>, connector |-> <<"d","e"," ">>, name |-> <<"p","o","m","m","e","s">>, value |-> Q(3, 2)],
    [number |-> <<"0",".","5">>, unit |-> <<"l">>, connector |-> <<"d","'">>, name |-> <<"e","a","u">>, value |-> Q(1, 2)],
    [number |-> <<"2">>, unit |-> <<"c","u","p","s">>, connector |-> << >>, name |-> <<"f","l","o","u","r">>, value |-> Q(2, 1)],
    [number |-> <<"1","/","2">>, unit |-> << >>, connector |-> << >>, name |-> <<"c","i","t","r","o","n">>, value |-> Q(1, 2)],
    [number |-> <<"0",".","2","5">>, unit |-> <<"L">>, connector |-> <<"d","e"," ">>, name |-> <<"l","a","i","t">>, value |-> Q(1, 4)],
    [number |-> <<"0",".","3","3">>, unit |-> << >>, connector |-> << >>, name |-> <<"c","o","u","r","g","e","t","t","e">>, value |-> Q(33, 100)],
    [number |-> <<"0",".","6","6">>, unit |-> <<"t","s","p">>, connector |-> <<"o","f"," ">>, name |-> <<"s","a","l","t">>, value |-> Q(33, 50)],
    [number |-> <<"0",".","7","5">>, unit |-> <<"k","g">>, connector |-> <<"d","e"," ">>, name |-> <<"s","u","c","r","e">>, value |-> Q(3, 4)],
    [number |-> <<"2",".","2","5">>, unit |-> << >>, connector |-> << >>, name |-> <<"p","o","m","m","e","s">>, value |-> Q(9, 4)],
    [number |-> <<"0",".","3">>, unit |-> <<"g">>, connector |-> <<"d","e"," ">>, name |-> <<"s","e","l">>, value |-> Q(3, 10)],
    [number |-> <<"1",".","3","3","3">>, unit |-> <<"k","g">>, connector |-> <<"d","e"," ">>, name |-> <<"r","i","z">>, value |-> Q(1333, 1000)]
  }
LeadingLine(f) ==
  f.number \o <<" ">> \o (IF f.unit = << >> THEN << >> ELSE f.unit \o <<" ">>)
    \o f.connector \o f.name
\* lines "<Name> - <number> [<unit>]", the dash written with its spaces
DashForms == {
    [name |-> <<"O","i","g","n","o","n">>, dash |-> <<" ","-"," ">>, number |-> <<"1">>, unit |-> << >>, value |-> Q(1, 1)],
    [name |-> <<"S","e","l">>, dash |-> <<" ","EN_DASH"," ">>, number |-> <<"2">>, unit |-> <<"p","i","n","c","é","e","s">>, value |-> Q(2, 1)],
    [name |-> <<"B","e","u","r","r","e">>, dash |-> <<"-">>, number |-> <<"5","0">>, unit |-> <<"g">>, value |-> Q(50, 1)],
    [name |-> <<"F","a","r","i","n","e">>, dash |-> <<" ","-"," ">>, number |-> <<"2","0","0">>, unit |-> <<"g","r","a","m","m","e","s">>, value |-> Q(200, 1)],
    [name |-> <<"2"," ","o","e","u","f","s">>, dash |-> <<" ","-"," ">>, number |-> <<"3">>, unit |-> << >>, value |-> Q(3, 1)],
    [name |-> <<"L","a","i","t">>, dash |-> <<" ","-"," ">>, number |-> <<"0",",","5">>, unit |-> <<"l">>, value |-> Q(1, 2)]
  }
DashLine(f) ==
  f.name \o f.dash \o f.number \o (IF f.unit = << >> THEN << >> ELSE <<" ">> \o f.unit)
\* lines of neither grammar
PlainLines == {<<"S","e","l">>, <<" ","P","o","i","v","r","e"," ","d","u"," ","m","o","u","l","i","n"," ">>}
GrammarLines ==
  {LeadingLine(f) : f \in LeadingForms} \cup {DashLine(f) : f \in DashForms} \cup PlainLines
IngredientRecords ==
  {ScrapedRecipe(i, << >>, absent) : i \in ListsOf(GrammarLines, MaxLines)}
InitIngredients == RecipeCall(IngredientRecords)
SpecIngredients == InitIngredients /\ [][NextRecipe]_vars

----------------------------------------------------------------------------
(* convert_recipe called on records with and without the optional fields *)

\* values of an optional integer field: absent, zero, provided
OptionalFields ==
  {[total_time |-> t, prep_time |-> p, servings |-> s, source_url |-> u] :
     t \in {None, Some(0), Some(50)}, p \in {None, Some(0), Some(20)},
     s \in {None, Some(0), Some(6)}, u \in {<< >>, provided.source_url}}
AssemblyRecords ==
  {ScrapedRecipe(<<<<"2"," ","o","e","u","f","s">>>>, s, o) :
     s \in {<< >>, <<<<"C","u","i","r","e"," ","2"," ","o","e","u","f","s"," ","1","0"," ","m","i","n">>>>}, o \in OptionalFields}
\* ingredient lines and instructions that state quantities of them
ErasureLines == {
    <<"2","0","0"," ","g"," ","d","e"," ","f","a","r","i","n","e">>,
    <<"1"," ","l","i","t","r","e"," ","o","f"," ","m","i","l","k">>,
    <<"2","0"," ","g"," ","d","'","h","u","i","l","e"," ","d","'","o","l","i","v","e">>,
    <<"2"," ","o","e","u","f","s">>
  }
ErasureTexts == {
    <<"A","j","o","u","t","e","r"," ","2","0","0"," ","g"," ","d","e"," ","f","a","r","i","n","e">>,
    <<"A","d","d"," ","1"," ","l","i","t","r","e"," ","o","f"," ","m","i","l","k">>,
    <<"2","0"," ","g"," ","d","'","h","u","i","l","e"," ","d","'","o","l","i","v","e"," ","e","t"," ","2"," ","o","e","u","f","s">>,
    <<"1"," ","k","g"," ","d","e"," ","F","a","r","i","n","e"," ","p","u","i","s"," ","2"," ","o","e","u","f","s">>,
    <<"S","e","r","v","i","r">>
  }
ErasureRecords ==
  {ScrapedRecipe(i, s, absent) : i \in ListsOf(ErasureLines, MaxLines),
                                 s \in ListsOf(ErasureTexts, MaxLines)}
InitErasure == RecipeCall(ErasureRecords)
SpecErasure == InitErasure /\ [][NextRecipe]_vars
\* ingredient lines, and instructions that name them once, twice or not at all
MentionLines == {
    <<"2","0","0"," ","g"," ","d","e"," ","f","a","r","i","n","e">>,
    <<"O","i","g","n","o","n"," ","-"," ","1">>,
    <<"2"," ","o","e","u","f","s">>
  }
MentionTexts == {
    <<"M","i","x","e","r"," ","F","a","r","i","n","e",","," ","2"," ","o","e","u","f","s",","," ","1"," ","k","g"," ","f","a","r","i","n","e">>,
    <<"C","u","i","r","e"," ","2"," ","o","e","u","f","s"," ","1","0"," ","m","i","n">>,
    <<"S","e","r","v","i","r"," ","1"," ","O","i","g","n","o","n",","," ","p","u","i","s"," ","1"," ","o","i","g","n","o","n",".">>,
    <<"S","e","r","v","i","r">>
  }
MentionRecords ==
  {ScrapedRecipe(i, s, absent) : i \in ListsOf(MentionLines, MaxLines),
                                 s \in ListsOf(MentionTexts, MaxLines)}
InitMentions == RecipeCall(MentionRecords)
SpecMentions == InitMentions /\ [][NextRecipe]_vars
\* raw quantities made of digits, ".", "," and "/"
QuantityStrings == {
    <<"3">>, <<"1",",","5">>, <<".","5">>, <<"1","/","2">>, <<"1",",","5","/","2">>, <<"0","/","5">>,
    <<"1","/","0">>, <<"/","2">>, <<"1","/">>, <<"1",".","2",".","3">>, <<".",".">>, <<"1","/","2","/","3">>
  }
\* an ingredient line of each grammar with the raw quantity n
LeadingOf(n) == n \o <<" ","k","g"," ","d","e"," ","r","i","z">>
DashOf(n) == <<"R","i","z"," ","-"," ">> \o n
QuantityLines == {LeadingOf(n) : n \in QuantityStrings} \cup {DashOf(n) : n \in QuantityStrings}
QuantityRecords ==
  {ScrapedRecipe(i, << >>, absent) : i \in ListsOf(QuantityLines, MaxLines)}
InitQuantities == RecipeCall(QuantityRecords)
SpecQuantities == InitQuantities /\ [][NextRecipe]_vars
InitAssembly == RecipeCall(AssemblyRecords)
SpecAssembly == InitAssembly /\ [][NextRecipe]_vars

----------------------------------------------------------------------------
(* server.py: the tools import_recipe and preview_recipe, each call a task *)
(* that advances from one await to the next                                *)

Environs ==
  {[credentials |-> c, language |-> l] : c \in BOOLEAN, l \in {<<"f","r","-","F","R">>, <<"e","n","-","G","B">>}}
Urls == {<<"x",".","f","r","/","t","a","r","t","e">>}
\* what scrape_recipe can return for a page (source_url is set to the url)
ServerRecords ==
  CallRecords \cup
    {ScrapedRecipe(<<<<"2","0"," ","g"," ","d","'","h","u","i","l","e"," ","d","'","o","l","i","v","e">>, <<"2","0","0"," ","g"," ","d","e"," ","f","a","r","i","n","e">>>>,
                   <<<<"M","é","l","a","n","g","e","r"," ","l","a"," ","f","a","r","i","n","e">>>>, provided)}
\* str(e) of the exceptions of the collaborators
CredentialsError == <<"M","i","s","s","i","n","g"," ","C","O","O","K","I","D","O","O","_","E","M","A","I","L"," ","a","n","d"," ","C","O","O","K","I","D","O","O","_","P","A","S","S","W","O","R","D"," ","e","n","v","i","r","o","n","m","e","n","t"," ","v","a","r","i","a","b","l","e","s","."," ","S","e","t"," ","t","h","e","m"," ","i","n"," ","y","o","u","r"," ","C","l","a","u","d","e"," ","D","e","s","k","t","o","p"," ","M","C","P"," ","c","o","n","f","i","g"," ","u","n","d","e","r"," ","'","e","n","v","'",".">>
LoginErrors == {<<"4","0","1">>}
ScrapeErrors == {<< >>, <<"4","0","4">>}
CreateErrors == {<<"R","e","c","i","p","e"," ","c","r","e","a","t","i","o","n"," ","f","a","i","l","e","d"," ","(","s","t","a","t","u","s"," ","5","0","0",")",":"," ">>}
UpdateErrors == {<<"R","e","c","i","p","e"," ","u","p","d","a","t","e"," ","f","a","i","l","e","d"," ","(","s","t","a","t","u","s"," ","5","0","0",")",":"," ">>}
\* result['url'] of upload_recipe
RecipeUrl == <<"h","t","t","p","s",":","/","/","c","o","o","k","i","d","o","o",".","f","r","/","r","e","c","i","p","e","s","/","c","u","s","t","o","m","-","r","e","c","i","p","e","s","/","0","1">>

\* language.split("-")[0]
ServerLocale ==
  LET dashes == {i \in 1..Len(environ.language) : environ.language[i] = "-"}
  IN IF dashes = {} THEN environ.language
     ELSE SubSeq(environ.language, 1, Min(dashes) - 1)

\* the replies of import_recipe
MissingConfiguration(e) ==
  <<"M","i","s","s","i","n","g"," ","c","o","n","f","i","g","u","r","a","t","i","o","n",":"," ">> \o e \o <<"\n","\n","A","d","d"," ","y","o","u","r"," ","C","o","o","k","i","d","o","o"," ","c","r","e","d","e","n","t","i","a","l","s"," ","i","n"," ","t","h","e"," ","M","C","P"," ","c","o","n","f","i","g",":","\n","C","O","O","K","I","D","O","O","_","E","M","A","I","L","=","y","o","u","r","@","e","m","a","i","l",".","c","o","m","\n","C","O","O","K","I","D","O","O","_","P","A","S","S","W","O","R","D","=","y","o","u","r","p","a","s","s","w","o","r","d">>
UnableToConnect(e) == <<"U","n","a","b","l","e"," ","t","o"," ","c","o","n","n","e","c","t"," ","t","o"," ","C","o","o","k","i","d","o","o",":"," ">> \o e
UnableToRead(url, e) ==
  <<"U","n","a","b","l","e"," ","t","o"," ","r","e","a","d"," ","t","h","e"," ","r","e","c","i","p","e"," ","f","r","o","m"," ">> \o url \o <<"\n","E","r","r","o","r",":"," ">> \o e
    \o <<"\n","\n","M","a","k","e"," ","s","u","r","e"," ","t","h","e"," ","l","i","n","k"," ","i","s"," ","c","o","r","r","e","c","t"," ","a","n","d"," ","t","h","e"," ","s","i","t","e"," ","i","s"," ","a","c","c","e","s","s","i","b","l","e",".">>
UnableToSave(e, name) ==
  <<"U","n","a","b","l","e"," ","t","o"," ","s","a","v","e"," ","t","h","e"," ","r","e","c","i","p","e"," ","o","n"," ","C","o","o","k","i","d","o","o",":"," ">> \o e \o <<"\n","\n","T","h","e"," ","r","e","c","i","p","e"," ","'">> \o name
    \o <<"'"," ","w","a","s"," ","c","o","n","v","e","r","t","e","d"," ","s","u","c","c","e","s","s","f","u","l","l","y"," ","b","u","t"," ","t","h","e"," ","u","p","l","o","a","d"," ","f","a","i","l","e","d","."," ","T","r","y"," ","a","g","a","i","n"," ","i","n"," ","a"," ","f","e","w"," ","m","o","m","e","n","t","s",".">>
\* "\n".join(f"  {i+1}. {step.to_text(locale)}" for the steps 1..n)
StepsText(steps, n, loc) ==
  JoinWith(<<"\n">>, [k \in 1..n |-> <<" "," ">> \o IntToStr(k) \o <<"."," ">> \o to_text(steps[k], loc)])
Imported(thermomix_recipe, loc) ==
  <<"R","e","c","i","p","e"," ","i","m","p","o","r","t","e","d"," ","s","u","c","c","e","s","s","f","u","l","l","y","!","\n","\n">> \o thermomix_recipe.name \o <<"\n">>
    \o IntToStr(thermomix_recipe.servings) \o <<" ","s","e","r","v","i","n","g","s","\n">>
    \o IntToStr(thermomix_recipe.total_time_minutes) \o <<" ","m","i","n","\n">>
    \o IntToStr(Len(thermomix_recipe.ingredients)) \o <<" ","i","n","g","r","e","d","i","e","n","t","s","\n","\n","T","h","e","r","m","o","m","i","x"," ","s","t","e","p","s",":","\n">>
    \o StepsText(thermomix_recipe.steps, Min({5, Len(thermomix_recipe.steps)}), loc)
    \o (IF Len(thermomix_recipe.steps) > 5
        THEN <<"\n"," "," ",".",".","."," ","a","n","d"," ">> \o IntToStr(Len(thermomix_recipe.steps) - 5) \o <<" ","m","o","r","e"," ","s","t","e","p","s">>
        ELSE << >>)
    \o <<"\n","\n","V","i","e","w"," ","o","n"," ","C","o","o","k","i","d","o","o",":"," ">> \o RecipeUrl
\* the replies of preview_recipe
PreviewUnableToRead(url, e) ==
  <<"U","n","a","b","l","e"," ","t","o"," ","r","e","a","d"," ","t","h","e"," ","r","e","c","i","p","e"," ","f","r","o","m"," ">> \o url \o <<"\n","E","r","r","o","r",":"," ">> \o e
Preview(thermomix_recipe, loc) ==
  thermomix_recipe.name \o <<"\n">>
    \o IntToStr(thermomix_recipe.servings) \o <<" ","s","e","r","v","i","n","g","s"," ","|"," ">>
    \o IntToStr(thermomix_recipe.total_time_minutes) \o <<" ","m","i","n","\n","\n","I","n","g","r","e","d","i","e","n","t","s",":","\n">>
    \o JoinWith(<<"\n">>, [k \in 1..Len(thermomix_recipe.ingredients) |->
                           <<" "," ","BULLET"," ">> \o ingredient_to_text(thermomix_recipe.ingredients[k], loc)])
    \o <<"\n","\n","T","h","e","r","m","o","m","i","x"," ","s","t","e","p","s",":","\n">>
    \o StepsText(thermomix_recipe.steps, Len(thermomix_recipe.steps), loc)
    \o <<"\n","\n">>
    \o JoinWith(<<"\n">>, [k \in 1..Len(thermomix_recipe.hints) |->
                           <<" "," ","-"," ">> \o thermomix_recipe.hints[k]])
    \o <<"\n","\n","U","s","e"," ","'","i","m","p","o","r","t","_","r","e","c","i","p","e","'"," ","t","o"," ","s","a","v","e"," ","i","t"," ","t","o"," ","C","o","o","k","i","d","o","o","!">>

InitServer ==
  /\ pc = "idle"
  /\ step_text = << >>
  /\ locale = fr
  /\ step = None
  /\ rendered = None
  /\ cleaned = << >>
  /\ scraped = None
  /\ recipe = None
  /\ calls = << >>
  /\ environ \in Environs
  /\ NoClient

\* the task of a call that returned reply (None: the call raised)
Returned(call, outcome, reply) ==
  [call EXCEPT !.pc = "done", !.outcome = outcome, !.reply = reply]

\* import_recipe, lines 44-49: a call starts and, when no connected client is
\* there, makes one and starts its login (up to the await of line 59 of login)
ImportConnect(t) ==
  /\ tasks[t].pc = "idle"
  /\ \E url \in Urls :
       LET call == [idle EXCEPT !.tool = "import_recipe", !.url = url]
       IN IF _client = None \/ ~clients[_client[1]]._api
          THEN IF ~environ.credentials
               THEN /\ tasks' = [tasks EXCEPT ![t] =
                         Returned(call, "configuration-missing",
                                  Some(MissingConfiguration(CredentialsError)))]
                    /\ UNCHANGED <<_client, clients>>
               ELSE /\ clients' = [clients EXCEPT ![t] = [_api |-> FALSE, logged_in |-> FALSE]]
                    /\ _client' = Some(t)
                    /\ tasks' = [tasks EXCEPT ![t] =
                         [call EXCEPT !.pc = "localization", !.client = Some(t)]]
          ELSE /\ tasks' = [tasks EXCEPT ![t] = [call EXCEPT !.pc = "scrape"]]
               /\ UNCHANGED <<_client, clients>>
  /\ UNCHANGED <<environ, remote, converter>>

\* CookidooClient.login, lines 59-67: get_localization_options answers, then
\* self._api is set and the login request is sent
ImportLocalization(t) ==
  /\ tasks[t].pc = "localization"
  /\ \/ /\ clients' = [clients EXCEPT ![t]._api = TRUE]
        /\ tasks' = [tasks EXCEPT ![t].pc = "login"]
     \/ /\ \E e \in LoginErrors :
             tasks' = [tasks EXCEPT ![t] =
               Returned(tasks[t], "login-failed", Some(UnableToConnect(e)))]
        /\ UNCHANGED clients
  /\ UNCHANGED <<environ, _client, remote, converter>>

\* CookidooClient.login, line 68: the login request is answered
ImportLogin(t) ==
  /\ tasks[t].pc = "login"
  /\ \/ /\ clients' = [clients EXCEPT ![t].logged_in = TRUE]
        /\ remote' = Append(remote, [op |-> "login", task |-> t, client |-> t])
        /\ tasks' = [tasks EXCEPT ![t].pc = "scrape"]
     \/ /\ \E e \in LoginErrors :
             tasks' = [tasks EXCEPT ![t] =
               Returned(tasks[t], "login-failed", Some(UnableToConnect(e)))]
        /\ UNCHANGED <<clients, remote>>
  /\ UNCHANGED <<environ, _client, converter>>

\* import_recipe, lines 71-77, and upload_recipe, lines 88-93, on the client
\* the global names when scrape_recipe has returned result: the task after the
\* synchronous code that ends at the POST of line 110
Converted(call, result, loc, client) ==
  IF convert_recipe_raises(result)
  THEN Returned([call EXCEPT !.scraped = Some(result)], "conversion-raised", None)
  ELSE Bind(convert_recipe(result, loc), LAMBDA converted :
         IF ~clients[client]._api
         THEN Returned([call EXCEPT !.scraped = Some(result),
                                    !.thermomix_recipe = Some(converted)],
                       "not-connected",
                       Some(UnableToSave(<<"N","o","t"," ","c","o","n","n","e","c","t","e","d","."," ","C","a","l","l"," ","l","o","g","i","n","(",")"," ","f","i","r","s","t",".">>, converted.name)))
         ELSE IF ~clients[client].logged_in
         THEN Returned([call EXCEPT !.scraped = Some(result),
                                    !.thermomix_recipe = Some(converted)],
                       "not-connected",
                       Some(UnableToSave(<<"N","o"," ","a","u","t","h","e","n","t","i","c","a","t","i","o","n"," ","d","a","t","a"," ","a","v","a","i","l","a","b","l","e",".">>, converted.name)))
         ELSE [call EXCEPT !.pc = "create", !.client = Some(client),
                           !.scraped = Some(result),
                           !.thermomix_recipe = Some(converted)])

\* import_recipe, lines 61-77: scrape_recipe raises in fetch_html or in
\* scrape_html, or returns a record, which is converted and sent
ImportScrape(t) ==
  /\ tasks[t].tool = "import_recipe"
  /\ tasks[t].pc = "scrape"
  /\ \/ \E kind \in {"fetch-failed", "upstream-parse-failed"}, e \in ScrapeErrors :
          tasks' = [tasks EXCEPT ![t] =
            Returned(tasks[t], kind, Some(UnableToRead(tasks[t].url, e)))]
     \/ \E record \in ServerRecords :
          tasks' = [tasks EXCEPT ![t] =
            Converted(tasks[t], [record EXCEPT !.source_url = tasks[t].url],
                      ServerLocale, _client[1])]
  /\ UNCHANGED <<environ, _client, clients, remote, converter>>

\* upload_recipe, lines 110-121: the POST that creates the recipe is answered
ImportCreate(t) ==
  /\ tasks[t].pc = "create"
  /\ \/ /\ remote' = Append(remote, [op |-> "create", task |-> t,
                                     client |-> tasks[t].client[1]])
        /\ tasks' = [tasks EXCEPT ![t].pc = "update"]
     \/ /\ \E e \in CreateErrors :
             tasks' = [tasks EXCEPT ![t] =
               Returned(tasks[t], "publish-rejected",
                        Some(UnableToSave(e, tasks[t].thermomix_recipe[1].name)))]
        /\ UNCHANGED remote
  /\ UNCHANGED <<environ, _client, clients, converter>>

\* upload_recipe, lines 124-140, and import_recipe, lines 86-101: the PATCH
\* with the full recipe is answered
ImportUpdate(t) ==
  /\ tasks[t].pc = "update"
  /\ \/ /\ remote' = Append(remote, [op |-> "update", task |-> t,
                                     client |-> tasks[t].client[1]])
        /\ tasks' = [tasks EXCEPT ![t] =
             Returned(tasks[t], "success",
                      Some(Imported(tasks[t].thermomix_recipe[1], ServerLocale)))]
     \/ /\ \E e \in UpdateErrors :
             tasks' = [tasks EXCEPT ![t] =
               Returned(tasks[t], "publish-rejected",
                        Some(UnableToSave(e, tasks[t].thermomix_recipe[1].name)))]
        /\ UNCHANGED remote
  /\ UNCHANGED <<environ, _client, clients, converter>>

\* preview_recipe, lines 120-143, when scrape_recipe has returned result
Previewed(call, result, loc) ==
  IF convert_recipe_raises(result)
  THEN Returned([call EXCEPT !.scraped = Some(result)], "conversion-raised", None)
  ELSE Bind(convert_recipe(result, loc), LAMBDA converted :
         Returned([call EXCEPT !.scraped = Some(result),
                               !.thermomix_recipe = Some(converted)],
                  "success", Some(Preview(converted, loc))))

\* mutant of PreviewRecipe: the tool connects like import_recipe does before it
\* scrapes
PreviewRecipeConnecting(t) ==
  /\ tasks[t].pc = "idle"
  /\ \E url \in Urls, record \in ServerRecords :
       tasks' = [tasks EXCEPT ![t] =
         Previewed([idle EXCEPT !.tool = "preview_recipe", !.url = url],
                   [record EXCEPT !.source_url = url], ServerLocale)]
  /\ clients' = [clients EXCEPT ![t] = [_api |-> TRUE, logged_in |-> TRUE]]
  /\ _client' = Some(t)
  /\ remote' = Append(remote, [op |-> "login", task |-> t, client |-> t])
  /\ UNCHANGED <<environ, converter>>
\* preview_recipe, lines 114-143: the whole call; it has one await, of
\* scrape_recipe, and reads nothing another task writes
PreviewRecipe(t) ==
  /\ tasks[t].pc = "idle"
  /\ \E url \in Urls :
       LET call == [idle EXCEPT !.tool = "preview_recipe", !.url = url]
       IN \/ \E kind \in {"fetch-failed", "upstream-parse-failed"}, e \in ScrapeErrors :
               tasks' = [tasks EXCEPT ![t] =
                 Returned(call, kind, Some(PreviewUnableToRead(url, e)))]
          \/ \E record \in ServerRecords :
               tasks' = [tasks EXCEPT ![t] =
                 Previewed(call, [record EXCEPT !.source_url = url], ServerLocale)]
  /\ UNCHANGED <<environ, _client, clients, remote, converter>>

NextServer ==
  \E t \in Tasks :
    \/ ImportConnect(t)
    \/ ImportLocalization(t)
    \/ ImportLogin(t)
    \/ ImportScrape(t)
    \/ ImportCreate(t)
    \/ ImportUpdate(t)
    \/ PreviewRecipe(t)
SpecServer == InitServer /\ [][NextServer]_vars

----------------------------------------------------------------------------
(* Claims *)

\* accent-stripped, lowercased step text
Normalized(t) == _strip_accents(Lower(t))
\* some turbo-trigger keyword is a substring of the normalized text
TurboTriggered(t) ==
  LET n == Normalized(t) IN \E kw \in TURBO_KEYWORDS : Contains(n, kw)
\* entry k is the first of the table, in table order, whose keyword is in the
\* normalized text n
IsFirstIn(table, k, n) ==
  /\ Contains(n, table[k].keyword)
  /\ \A j \in 1..(k - 1) : ~Contains(n, table[j].keyword)
HasKeyword(table, t) ==
  LET n == Normalized(t) IN \E k \in 1..Len(table) : Contains(n, table[k].keyword)
\* number of places where w occurs in s
Occurrences(s, w) == Cardinality({i \in 1..Len(s) : StartsWith(s, i, w)})

\* C1: convert_step is total: for every step text the call returns a step and
\* never raises (a malformed speed phrase would give an absent speed).
C1_NeverRaises == pc # "raised"
\* C1 counterexample state: "vitesse." has a speed phrase whose number is a lone
\* ".", float() rejects it and convert_step raises ValueError
C1_Raised ==
  /\ pc = "raised"
  /\ step_text = <<"v","i","t","e","s","s","e",".">>

\* C4: _clean_description is idempotent: cleaning a cleaned description
\* returns it unchanged.
C4_CleanIdempotent == Len(cleaned) = 2 => cleaned[2] = cleaned[1]
\* C4 counterexample state: three trailing periods lose one period per cleaning
C4_SecondCleaningDiffers ==
  /\ step_text = <<"S","e","r","v","i","r",".",".",".">>
  /\ cleaned = <<<<"S","e","r","v","i","r",".",".">>, <<"S","e","r","v","i","r",".">>>>

\* C6: when a turbo-trigger keyword is in the normalized text, the returned step
\* has is_turbo set, nothing of a cooking or mixing preset (reverse is false;
\* speed and temperature are absent unless the text states them), and duration
\* 15 when the text states no duration.
C6_TurboShortCircuit ==
  (pc = "returned" /\ TurboTriggered(step_text)) =>
    /\ step.is_turbo
    /\ step.reverse = FALSE
    /\ (SpeedGroup(step_text) = None => step.speed = None)
    /\ (SpeedGroup(step_text) # None => step.speed = _parse_speed_from_text(step_text))
    /\ (TemperatureGroup(step_text) = None => step.temperature = None)
    /\ (_parse_duration_from_text(step_text) = None => step.duration_seconds = Some(15))
\* C6 witness: a turbo trigger together with a cooking keyword and a mixing
\* keyword ("mixer" inside the trigger), converted to a turbo step without speed
C6_Witness ==
  /\ pc = "returned"
  /\ step_text = <<"m","i","x","e","r"," ","f","i","n","e","m","e","n","t"," ","c","u","i","r","e"," ">>
  /\ step.is_turbo
  /\ step.speed = None
  /\ step.temperature = None
  /\ step.duration_seconds = Some(15)

\* the preset the keyword tiers give a text: none for a turbo text, else that of
\* the first cooking keyword, else that of the first mixing keyword
TierPreset(t) ==
  LET n == Normalized(t)
      none == [speed |-> None, temperature |-> None, reverse |-> FALSE]
  IN IF TurboTriggered(t) THEN none
     ELSE IF \E k \in 1..Len(COOKING_KEYWORDS) : Contains(n, COOKING_KEYWORDS[k].keyword)
     THEN LET e == COOKING_KEYWORDS[CHOOSE k \in 1..Len(COOKING_KEYWORDS) :
                                      IsFirstIn(COOKING_KEYWORDS, k, n)]
          IN [speed |-> Some(e.speed), temperature |-> Some(e.temp),
              reverse |-> ("reverse" \in DOMAIN e /\ e.reverse)]
     ELSE IF \E k \in 1..Len(MIXING_KEYWORDS) : Contains(n, MIXING_KEYWORDS[k].keyword)
     THEN LET e == MIXING_KEYWORDS[CHOOSE k \in 1..Len(MIXING_KEYWORDS) :
                                     IsFirstIn(MIXING_KEYWORDS, k, n)]
          IN [speed |-> Some(e.speed), temperature |-> None,
              reverse |-> ("reverse" \in DOMAIN e /\ e.reverse)]
     ELSE none

C8_MixingPreset ==
  (/\ pc = "returned"
   /\ ~TurboTriggered(step_text)
   /\ ~HasKeyword(COOKING_KEYWORDS, step_text)
   /\ SpeedGroup(step_text) = None
   /\ _parse_duration_from_text(step_text) = None
   /\ TemperatureGroup(step_text) = None) =>
     LET n == Normalized(step_text)
     IN \A k \in 1..Len(MIXING_KEYWORDS) :
          IsFirstIn(MIXING_KEYWORDS, k, n) =>
            /\ step.speed = Some(MIXING_KEYWORDS[k].speed)
            /\ step.duration_seconds = Some(MIXING_KEYWORDS[k].duration)
            /\ step.reverse = ("reverse" \in DOMAIN MIXING_KEYWORDS[k]
                               /\ MIXING_KEYWORDS[k].reverse)
            /\ step.temperature = None
\* C8 witness: "mixer" comes first in the text and "melanger" first in the
\* table: the step takes the preset of "melanger" (speed 3, 30 s, no reverse)
C8_Witness ==
  /\ pc = "returned"
  /\ step_text = <<"m","i","x","e","r"," ","M","é","l","a","n","g","e","r"," ">>
  /\ step.speed = Some(3)
  /\ step.duration_seconds = Some(30)
  /\ step.reverse = FALSE
  /\ step.temperature = None

\* C10: in every step convert_step returns, speed is absent or within 1..10.
C10_SpeedDomain ==
  pc = "returned" => (step.speed = None \/ step.speed[1] \in 1..10)
\* C10 counterexample state: an explicit speed above 10 is returned as it is
C10_SpeedTwelve ==
  /\ pc = "returned"
  /\ step_text = <<"v","i","t","e","s","s","e"," ","1","2"," ">>
  /\ step.speed = Some(12)

\* C9: the rendered text and the parameter annotation carry at most one speed
\* component and at most one temperature component; with is_turbo the speed
\* component is the Turbo marker and no numeric speed appears, with is_varoma
\* the temperature component is the Varoma marker and no "N°C" appears.
C9_RenderingExclusive ==
  pc = "rendered" =>
    LET t == rendered[1]
        numeric_speed == Occurrences(t, vitesse \o <<" ">>) + Occurrences(t, speed_word \o <<" ">>)
        numeric_temp == Occurrences(t, degrees_c)
        ann == step.tts_annotations
    IN /\ Occurrences(t, Turbo) + numeric_speed <= 1
       /\ Occurrences(t, Varoma) + numeric_temp <= 1
       /\ step.is_turbo => (Occurrences(t, Turbo) = 1 /\ numeric_speed = 0)
       /\ step.is_varoma => (Occurrences(t, Varoma) = 1 /\ numeric_temp = 0)
       /\ (step.is_turbo /\ ann # << >>) => ann[1].speed = Some(Turbo)
       /\ (step.is_varoma /\ ann # << >>) => ann[1].temperature_value = Some(varoma)
       /\ (step.is_turbo \/ step.is_varoma) => ann # << >>
\* C9 witness: a step that stores a numeric speed and a numeric temperature
\* besides both flags, rendered with the two markers only
C9_Witness ==
  /\ pc = "rendered"
  /\ step.is_turbo /\ step.speed = Some(3)
  /\ step.is_varoma /\ step.temperature = Some(100)
  /\ step.duration_seconds = Some(90)
  /\ rendered = Some(<<"M","i","x"," ","1"," ","m","i","n"," ","3","0"," ","s","e","c","/","V","a","r","o","m","a","/","T","u","r","b","o">>)

\* C2: in the recipe convert_recipe returns, the parameter annotation of every
\* step that has one is anchored to the step's final text: its offset is
\* len(description) + 1, its length is the length of the parameter suffix, and the
\* characters of to_text(locale) at [offset, offset + length) are the suffix.
C2_AnnotationAnchored ==
  recipe # None =>
    \A k \in 1..Len(recipe[1].steps) :
      LET st == recipe[1].steps[k]
          suffix == tts_text(st, locale)[1]
          position == st.tts_annotations[1].position
      IN st.tts_annotations # << >> =>
           /\ position.offset = Len(st.description) + 1
           /\ position.length = Len(suffix)
           /\ SubSeq(to_text(st, locale), position.offset + 1,
                     position.offset + position.length) = suffix
\* C2 counterexample state: erasing "200 g de farine" shortens the description
\* to 29 characters; the annotation keeps the offset 36 computed before
C2_StaleOffset ==
  /\ recipe # None
  /\ locale = fr
  /\ scraped.ingredients = <<<<"2","0","0"," ","g"," ","d","e"," ","f","a","r","i","n","e">>>>
  /\ scraped.instructions = <<<<"A","j","o","u","t","e","r"," ","2","0","0"," ","g"," ","d","e"," ","f","a","r","i","n","e"," ","e","t"," ","m","é","l","a","n","g","e","r">>>>
  /\ recipe[1].steps[1].description = <<"A","j","o","u","t","e","r"," ","l","e"," ","f","a","r","i","n","e"," ","e","t"," ","m","é","l","a","n","g","e","r">>
  /\ recipe[1].steps[1].tts_annotations[1].position.offset = 36

\* C3: in the payload of a recipe convert_recipe returns, every annotation of
\* every step lies inside the text published for that step:
\* 0 <= offset and offset + length <= len(text).
C3_PositionInvariant ==
  recipe # None =>
    LET instructions == to_cookidoo_payload(recipe[1]).instructions
    IN \A k \in 1..Len(instructions) :
         \A a \in 1..Len(instructions[k].annotations) :
           LET position == instructions[k].annotations[a].position
           IN /\ 0 <= position.offset
              /\ position.offset + position.length <= Len(instructions[k].text)
\* C3 counterexample state: the published text has 46 characters and its TTS
\* annotation covers [36, 52)
C3_AnnotationPastEnd ==
  /\ recipe # None
  /\ locale = fr
  /\ scraped.ingredients = <<<<"2","0","0"," ","g"," ","d","e"," ","f","a","r","i","n","e">>>>
  /\ scraped.instructions = <<<<"A","j","o","u","t","e","r"," ","2","0","0"," ","g"," ","d","e"," ","f","a","r","i","n","e"," ","e","t"," ","m","é","l","a","n","g","e","r">>>>
  /\ LET instruction == to_cookidoo_payload(recipe[1]).instructions[1]
     IN /\ Len(instruction.text) = 46
        /\ instruction.annotations[2].type = "TTS"
        /\ instruction.annotations[2].position = [offset |-> 36, length |-> 16]

C11_TemperatureDomain ==
  /\ \A k \in 1..Len(COOKING_KEYWORDS) : COOKING_KEYWORDS[k].temp \in 37..120
  /\ pc = "returned" =>
       \/ step.temperature = None
       \/ step.temperature[1] \in 37..120
\* C11 witness: a text stating 20° (below the floor) after a cooking keyword
\* keeps the preset's 90 degrees
C11_Witness ==
  /\ pc = "returned"
  /\ step_text = <<"m","i","j","o","t","e","r"," ","2","0","°"," ">>
  /\ step.temperature = Some(90)

\* C12: the tools of a converted recipe start with "TM7", followed by exactly
\* the labels of the tool-table entries one of whose keywords is a substring of
\* the lowercased, accent-stripped instruction lines joined by spaces, in table
\* order and without duplicates.
C12_DetectTools ==
  pc = "returned" =>
    LET tools == recipe[1].tools
        n == Normalized(JoinWith(<<" ">>, scraped.instructions))
        Triggered(k) == \E kw \in TOOL_KEYWORDS[k].keywords : Contains(n, kw)
        Entry(i) == CHOOSE k \in 1..Len(TOOL_KEYWORDS) : TOOL_KEYWORDS[k].tool = tools[i]
    IN /\ Len(tools) >= 1
       /\ tools[1] = <<"T","M","7">>
       /\ \A i \in 2..Len(tools) :
            \E k \in 1..Len(TOOL_KEYWORDS) : TOOL_KEYWORDS[k].tool = tools[i] /\ Triggered(k)
       /\ \A k \in 1..Len(TOOL_KEYWORDS) :
            Triggered(k) => \E i \in 2..Len(tools) : tools[i] = TOOL_KEYWORDS[k].tool
       /\ \A i, j \in 2..Len(tools) : i < j => Entry(i) < Entry(j)
\* C12 witness: an oven line with an accent and a steam line in capitals give
\* TM7, Four, Varoma
C12_Witness ==
  /\ pc = "returned"
  /\ scraped.instructions = <<<<"P","r","é","c","h","a","u","f","f","e","r"," ","l","e"," ","f","o","u","r">>, <<"C","u","i","r","e"," ","à"," ","l","a"," ","V","A","P","E","U","R">>>>
  /\ recipe[1].tools = <<<<"T","M","7">>, <<"F","o","u","r">>, <<"V","a","r","o","m","a">>>>

\* the canonical abbreviation of a unit token: the short form of the unit
\* table for the lowercased token, the token itself when the table has none
Canonical(u) ==
  IF u = << >> THEN None
  ELSE LET short == Lookup(UNIT_MAP, Lower(u)) IN IF short # None THEN short ELSE Some(u)

\* C13: a line "<number> [<unit>] [de |d'|of ]<Name>" without a dash is parsed
\* into quantity_numeric = the number, unit = the canonical abbreviation of
\* the unit token (absent when the line has none) and name = Name in full.
C13_LeadingGrammar ==
  pc = "returned" =>
    \A i \in 1..Len(scraped.ingredients) : \A f \in LeadingForms :
      scraped.ingredients[i] = LeadingLine(f) =>
        /\ recipe[1].ingredients[i].quantity_numeric = Some(f.value)
        /\ recipe[1].ingredients[i].unit = Canonical(f.unit)
        /\ recipe[1].ingredients[i].name = f.name
\* C13 counterexample state: the "g" of "gousses" is taken as the unit of
\* "2 gousses d'ail" and the name loses its first letter
C13_UnitFromName ==
  /\ pc = "returned"
  /\ scraped.ingredients = <<<<"2"," ","g","o","u","s","s","e","s"," ","d","'","a","i","l">>>>
  /\ recipe[1].ingredients[1].unit = Some(<<"g">>)
  /\ recipe[1].ingredients[1].name = <<"o","u","s","s","e","s"," ","d","'","a","i","l">>
  /\ recipe[1].ingredients[1].quantity_numeric = Some(Q(2, 1))

\* C14: a line "<Name> - <number> [<unit>]" (hyphen or en dash) is parsed into
\* name = Name, quantity_numeric = the number and unit = the canonical
\* abbreviation (absent when none follows), also when the line reads as a
\* leading-quantity line; a line of neither grammar becomes its trimmed text
\* as name, without quantity and unit.
C14_DashGrammar ==
  pc = "returned" =>
    \A i \in 1..Len(scraped.ingredients) :
      /\ \A f \in DashForms :
           scraped.ingredients[i] = DashLine(f) =>
             /\ recipe[1].ingredients[i].name = f.name
             /\ recipe[1].ingredients[i].quantity_numeric = Some(f.value)
             /\ recipe[1].ingredients[i].unit = Canonical(f.unit)
      /\ scraped.ingredients[i] \in PlainLines =>
           /\ recipe[1].ingredients[i].name = Strip(scraped.ingredients[i])
           /\ recipe[1].ingredients[i].quantity = None
           /\ recipe[1].ingredients[i].quantity_numeric = None
           /\ recipe[1].ingredients[i].unit = None
\* C14 witness: "2 oeufs - 3" reads as both grammars and is parsed by the dash
\* grammar; the line after it has no grammar
C14_Witness ==
  /\ pc = "returned"
  /\ scraped.ingredients = <<<<"2"," ","o","e","u","f","s"," ","-"," ","3">>, <<" ","P","o","i","v","r","e"," ","d","u"," ","m","o","u","l","i","n"," ">>>>
  /\ recipe[1].ingredients[1].name = <<"2"," ","o","e","u","f","s">>
  /\ recipe[1].ingredients[1].quantity_numeric = Some(Q(3, 1))
  /\ recipe[1].ingredients[1].unit = None
  /\ recipe[1].ingredients[2].name = <<"P","o","i","v","r","e"," ","d","u"," ","m","o","u","l","i","n">>
  /\ recipe[1].ingredients[2].quantity = None

\* the glyph that stands for h hundredths in the fraction table
Glyph ==
  [h \in {25, 33, 50, 66, 75} |->
     CASE h = 25 -> <<"¼">> [] h = 33 -> <<"ONE_THIRD">> [] h = 50 -> <<"½">>
       [] h = 66 -> <<"TWO_THIRDS">> [] h = 75 -> <<"¾">>]
\* the fractional part of the value v in hundredths, rounded to the nearest
Hundredths(v) == ((200 * v.num + v.den) \div (2 * v.den)) - 100 * (v.num \div v.den)
\* what the claim has _normalize_quantity return for the number of a form
Displayed(f) ==
  LET whole == f.value.num \div f.value.den
      h == Hundredths(f.value)
  IN IF f.number \in {<<"0",".","2","5">>, <<"0",".","3","3">>, <<"0",".","5">>, <<"0",".","6","6">>, <<"0",".","7","5">>} THEN Glyph[h]
     ELSE IF (\A k \in 1..Len(f.number) : f.number[k] # "/") /\ h \in DOMAIN Glyph
          THEN (IF whole > 0 THEN IntToStr(whole) \o <<" ">> ELSE << >>) \o Glyph[h]
     ELSE f.number

C19_AssemblyDefaults ==
  pc = "returned" =>
    /\ recipe[1].servings = IF scraped.servings = None THEN 4 ELSE scraped.servings[1]
    /\ recipe[1].prep_time_minutes =
         IF scraped.prep_time = None THEN 15 ELSE scraped.prep_time[1]
    /\ recipe[1].total_time_minutes =
         IF scraped.total_time = None THEN 45 ELSE scraped.total_time[1]
    /\ (\E k \in 1..Len(recipe[1].hints) :
          recipe[1].hints[k] = <<"O","r","i","g","i","n","a","l"," ","r","e","c","i","p","e",":"," ">> \o scraped.source_url)
       <=> scraped.source_url # << >>
\* C19 counterexample state: the record provides 0 servings and the recipe has
\* the default 4
C19_ZeroServings ==
  /\ pc = "returned"
  /\ scraped.servings = Some(0)
  /\ scraped.prep_time = Some(20)
  /\ scraped.total_time = Some(50)
  /\ recipe[1].servings = 4
  /\ recipe[1].prep_time_minutes = 20

\* the text names steam mode: "varoma", "steam" or "vapeur" in any letter case
NamesSteam(t) ==
  \E w \in {<<"v","a","r","o","m","a">>, <<"s","t","e","a","m">>, <<"v","a","p","e","u","r">>} : Contains(Lower(t), w)

\* C20: a returned step whose text contains "varoma", "steam" or "vapeur" in
\* any letter case has is_varoma set, whatever else the text contains.
C20_SteamIndependent ==
  (pc = "returned" /\ NamesSteam(step_text)) => step.is_varoma
\* C20 counterexample state: "cuire" comes before "vapeur" in the cooking
\* table, so the step of "Cuire à la vapeur" is not in steam mode
C20_SteamMissed ==
  /\ pc = "returned"
  /\ step_text = <<"C","u","i","r","e"," ","à"," ","l","a"," ","v","a","p","e","u","r"," ">>
  /\ ~step.is_varoma
  /\ step.temperature = Some(100)

\* the name takes the elided connector: it starts with a vowel or an h
Elides(name) ==
  /\ name # << >>
  /\ LowerChar(name[1]) \in {"a","e","i","o","u","y","à","â","é","è","ê","ë","ï","î","ô","ù","û","ü","h"}
\* the French text of an ingredient with quantity and unit
FrenchText(ing) ==
  ing.quantity[1] \o <<" ">> \o ing.unit[1]
    \o (IF Elides(ing.name) THEN <<"d","'">> ELSE <<"d","e"," ">>)
    \o <<LowerChar(ing.name[1])>> \o Tail(ing.name)

\* C15: in a French preview every ingredient with quantity and unit is shown
\* as "<quantity> <unit> d'<name>" when the name starts with a vowel or an h
\* and as "<quantity> <unit> de <name>" otherwise, so the line
\* "20 g d'huile d'olive" is shown as it was written; the names that take d'
\* are those the quantity eraser gives the article l'.
C15_FrenchRendering ==
  \A t \in Tasks :
    (tasks[t].tool = "preview_recipe" /\ tasks[t].outcome = "success"
       /\ IsFrench(ServerLocale)) =>
      \A k \in 1..Len(tasks[t].thermomix_recipe[1].ingredients) :
        LET ing == tasks[t].thermomix_recipe[1].ingredients[k]
        IN /\ (ing.quantity # None /\ ing.unit # None /\ ing.name # << >>) =>
                /\ Contains(tasks[t].reply[1], <<" "," ","BULLET"," ">> \o FrenchText(ing) \o <<"\n">>)
                /\ Elides(ing.name) <=> StartsWith(_french_article(ing.name), 1, <<"l","'">>)
           /\ tasks[t].scraped[1].ingredients[k] = <<"2","0"," ","g"," ","d","'","h","u","i","l","e"," ","d","'","o","l","i","v","e">> =>
                Contains(tasks[t].reply[1], <<" "," ","BULLET"," ","2","0"," ","g"," ","d","'","h","u","i","l","e"," ","d","'","o","l","i","v","e","\n">>)
\* C15 counterexample state: the French preview of the line
\* "20 g d'huile d'olive" shows "20 g de huile d'olive"
C15_HuileNotElided ==
  \E t \in Tasks :
    /\ tasks[t].tool = "preview_recipe"
    /\ tasks[t].outcome = "success"
    /\ environ.language = <<"f","r","-","F","R">>
    /\ tasks[t].scraped[1].ingredients[1] = <<"2","0"," ","g"," ","d","'","h","u","i","l","e"," ","d","'","o","l","i","v","e">>
    /\ tasks[t].thermomix_recipe[1].ingredients[1].name = <<"h","u","i","l","e"," ","d","'","o","l","i","v","e">>
    /\ Contains(tasks[t].reply[1], <<" "," ","BULLET"," ","2","0"," ","g"," ","d","e"," ","h","u","i","l","e"," ","d","'","o","l","i","v","e","\n">>)

\* C17: two import_recipe calls that ended in different ways among missing
\* configuration, failed fetch, failed parse of the fetched page, rejected
\* publication and success have different replies.
C17_DistinguishableKinds ==
  \A s, t \in Tasks :
    (/\ tasks[s].tool = "import_recipe" /\ tasks[t].tool = "import_recipe"
     /\ tasks[s].pc = "done" /\ tasks[t].pc = "done"
     /\ {tasks[s].outcome, tasks[t].outcome} \subseteq
          {"configuration-missing", "fetch-failed", "upstream-parse-failed",
           "publish-rejected", "success"}
     /\ tasks[s].outcome # tasks[t].outcome)
    => tasks[s].reply # tasks[t].reply
\* C17 counterexample state: a call whose fetch failed and a call whose page
\* could not be parsed returned the same reply
C17_SameReply ==
  /\ tasks[1].tool = "import_recipe"
  /\ tasks[2].tool = "import_recipe"
  /\ tasks[1].outcome = "fetch-failed"
  /\ tasks[2].outcome = "upstream-parse-failed"
  /\ tasks[1].reply = Some(UnableToRead(<<"x",".","f","r","/","t","a","r","t","e">>, <<"4","0","4">>))
  /\ tasks[2].reply = tasks[1].reply

\* C18: a step of a preview_recipe call leaves the global client, the client
\* objects and the account alone: it performs no login, no recipe creation
\* and no recipe update, when scraping succeeds and when it fails.
C18_PreviewFrame ==
  [][\A t \in Tasks :
       (tasks'[t].tool = "preview_recipe" /\ tasks'[t] # tasks[t]) =>
         (_client' = _client /\ clients' = clients /\ remote' = remote)]_vars
\* C18 witness: one preview failed at the fetch and another returned its
\* preview; no client was made and nothing was done on the account
C18_Witness ==
  /\ tasks[1].tool = "preview_recipe"
  /\ tasks[1].outcome = "fetch-failed"
  /\ tasks[2].tool = "preview_recipe"
  /\ tasks[2].outcome = "success"
  /\ _client = None
  /\ remote = << >>

\* the duration the keyword tiers give: 15 for a turbo step, none for a step
\* with a cooking keyword, else the preset of the first mixing keyword
TierDuration(t) ==
  LET n == Normalized(t)
  IN IF TurboTriggered(t) THEN Some(15)
     ELSE IF HasKeyword(COOKING_KEYWORDS, t) THEN None
     ELSE IF HasKeyword(MIXING_KEYWORDS, t)
     THEN Some(MIXING_KEYWORDS[CHOOSE k \in 1..Len(MIXING_KEYWORDS) :
                                 IsFirstIn(MIXING_KEYWORDS, k, n)].duration)
     ELSE None
\* the conversion of the first duration pattern that matches the lowercased
\* text, in the order minutes, seconds, hours; None when no pattern matches
FirstPattern(t) ==
  LET low == Lower(t)
      mins == {i \in 1..Len(low) : MinutesMatchAt(low, i)}
      secs == {i \in 1..Len(low) : SecondsMatchAt(low, i)}
      hrs == {i \in 1..Len(low) : HoursMatchAt(low, i)}
      Number(i) == ParseInt(SubSeq(low, i, SkipDigits(low, i) - 1))
  IN IF mins # {} THEN Some(Number(Min(mins)) * 60)
     ELSE IF secs # {} THEN Some(Number(Min(secs)))
     ELSE IF hrs # {} THEN Some(HoursValue(low, Min(hrs)))
     ELSE None

\* C21: a returned step has the duration of the first duration pattern that
\* matches its text (minutes, then seconds, then hours with optional minutes),
\* whatever the matched number, in place of the preset or turbo duration; when
\* no pattern matches it has the duration of the keyword tiers.
C21_DurationOverride ==
  pc = "returned" =>
    IF FirstPattern(step_text) # None
    THEN step.duration_seconds = FirstPattern(step_text)
    ELSE step.duration_seconds = TierDuration(step_text)
\* C21 counterexample state: the minutes pattern matches "0 min", its value 0
\* is falsy and the turbo default of 15 seconds stays
C21_ZeroKept ==
  /\ pc = "returned"
  /\ step_text = <<"M","i","x","e","r"," ","f","i","n","e","m","e","n","t"," ","0"," ","m","i","n"," ">>
  /\ FirstPattern(step_text) = Some(0)
  /\ step.duration_seconds = Some(15)

\* C22: a returned step whose text has no turbo trigger and has a cooking
\* keyword takes reverse, and speed and temperature where the text states none,
\* from the first cooking keyword in table order, and has no duration unless
\* the text states one: no mixing keyword of the text contributes anything.
C22_CookingOverMixing ==
  (/\ pc = "returned"
   /\ ~TurboTriggered(step_text)
   /\ HasKeyword(COOKING_KEYWORDS, step_text)) =>
     LET n == Normalized(step_text)
     IN \A k \in 1..Len(COOKING_KEYWORDS) :
          IsFirstIn(COOKING_KEYWORDS, k, n) =>
            /\ step.reverse = ("reverse" \in DOMAIN COOKING_KEYWORDS[k]
                               /\ COOKING_KEYWORDS[k].reverse)
            /\ SpeedGroup(step_text) = None =>
                 step.speed = Some(COOKING_KEYWORDS[k].speed)
            /\ TemperatureGroup(step_text) = None =>
                 step.temperature = Some(COOKING_KEYWORDS[k].temp)
            /\ _parse_duration_from_text(step_text) = None =>
                 step.duration_seconds = None
\* C22 witness: "incorporer" (speed 3, 30 s, reverse) comes first in the text,
\* the step has the preset of "cuire" and no duration
C22_Witness ==
  /\ pc = "returned"
  /\ step_text = <<"i","n","c","o","r","p","o","r","e","r"," ","c","u","i","r","e"," ">>
  /\ step.speed = Some(1)
  /\ step.temperature = Some(100)
  /\ step.reverse = FALSE
  /\ step.duration_seconds = None

\* C23: no step convert_step returns has both a numeric temperature and the
\* steam-mode flag: when is_varoma is set, temperature is absent.
C23_TemperatureXorVaroma ==
  pc = "returned" => ~(step.is_varoma /\ step.temperature # None)
\* C23 counterexample state: the preset of "vapeur" sets steam mode and the
\* temperature 100 together
C23_SteamWithTemperature ==
  /\ pc = "returned"
  /\ step_text = <<"à"," ","l","a"," ","v","a","p","e","u","r"," ">>
  /\ step.is_varoma
  /\ step.temperature = Some(100)

\* the name, after an optional connector "de ", "d'" or "of ", is at position c
\* of the lowercased text
ConnectorThenName(low, c, name) ==
  \/ NameEnd(low, c, name) # 0
  \/ /\ StartsWith(low, c, <<"o","f">>)
     /\ SkipSpaces(low, c + 2) > c + 2
     /\ StartsWith(low, SkipSpaces(low, c + 2), name)
\* a phrase "quantity, optional unit, optional connector, name" starts at
\* position i of the lowercased text
QuantityPhraseAt(low, i, name) ==
  /\ IsQtyStart(low[i])
  /\ \E e \in (i + 1)..SkipQtyRest(low, i + 1) :
       LET u == SkipSpaces(low, e)
           units == UNITS_PATTERN(low, u) \o <<u>>
       IN \E k \in 1..Len(units) :
            ConnectorThenName(low, SkipSpaces(low, units[k]), name)
StatesQuantityOf(text, name) ==
  LET low == Lower(text)
  IN \E i \in 1..Len(low) : QuantityPhraseAt(low, i, Lower(name))

\* C24: in the recipe convert_recipe returns, no step description contains a
\* phrase "quantity, optional unit, optional connector (de, d', of), name" for
\* the name of any parsed ingredient with a non-empty name.
C24_ErasureComplete ==
  pc = "returned" =>
    \A s \in 1..Len(recipe[1].steps) : \A g \in 1..Len(recipe[1].ingredients) :
      recipe[1].ingredients[g].name # << >> =>
        ~StatesQuantityOf(recipe[1].steps[s].description, recipe[1].ingredients[g].name)
\* C24 counterexample state: the connector "of" is not in the pattern, the
\* quantity of milk stays in the description
C24_OfKept ==
  /\ pc = "returned"
  /\ scraped.ingredients = <<<<"1"," ","l","i","t","r","e"," ","o","f"," ","m","i","l","k">>>>
  /\ recipe[1].ingredients[1].name = <<"m","i","l","k">>
  /\ scraped.instructions = <<<<"A","d","d"," ","1"," ","l","i","t","r","e"," ","o","f"," ","m","i","l","k">>>>
  /\ recipe[1].steps[1].description = <<"A","d","d"," ","1"," ","l","i","t","r","e"," ","o","f"," ","m","i","l","k">>

\* the j-th smallest element of a set of numbers
Nth(S, j) == CHOOSE x \in S : Cardinality({y \in S : y < x}) = j - 1

\* C25: in the recipe convert_recipe returns, the mentions of a step are, in
\* ingredient-list order, one for each ingredient whose name occurs in the
\* step's rendered text whatever the letter case, and no other; a mention's
\* offset is the index of the first occurrence, its length the length of the
\* name; the published annotations are the mentions in that order, then the
\* parameter annotation.
C25_IngredientMentions ==
  pc = "returned" =>
    \A s \in 1..Len(recipe[1].steps) :
      LET st == recipe[1].steps[s]
          ings == recipe[1].ingredients
          low == Lower(to_text(st, locale))
          present == {g \in 1..Len(ings) : Contains(low, Lower(ings[g].name))}
          anns == st.ingredient_annotations
          published == build_annotations(st, locale)
      IN /\ Len(anns) = Cardinality(present)
         /\ \A j \in 1..Len(anns) :
              LET g == Nth(present, j)
                  name == Lower(ings[g].name)
                  offset == anns[j].position.offset
              IN /\ anns[j].ingredient = ings[g]
                 /\ anns[j].position.length = Len(ings[g].name)
                 /\ StartsWith(low, offset + 1, name)
                 /\ \A i \in 1..offset : ~StartsWith(low, i, name)
                 /\ published[j].type = "INGREDIENT"
                 /\ published[j].position = anns[j].position
         /\ Len(published) = Len(anns) + Len(st.tts_annotations)
         /\ \A j \in (Len(anns) + 1)..Len(published) : published[j].type = "TTS"
\* C25 witness: both ingredients are named, "farine" twice and before "oeufs":
\* the mentions follow the ingredient list and point at the first occurrences
C25_Witness ==
  /\ pc = "returned"
  /\ locale = fr
  /\ scraped.ingredients = <<<<"2"," ","o","e","u","f","s">>, <<"2","0","0"," ","g"," ","d","e"," ","f","a","r","i","n","e">>>>
  /\ scraped.instructions = <<<<"M","i","x","e","r"," ","F","a","r","i","n","e",","," ","2"," ","o","e","u","f","s",","," ","1"," ","k","g"," ","f","a","r","i","n","e">>>>
  /\ to_text(recipe[1].steps[1], locale)
       = <<"M","i","x","e","r"," ","F","a","r","i","n","e",","," ","l","'","o","e","u","f","s",","," ","l","e"," ","f","a","r","i","n","e"," ","3","0"," ","s","e","c","/","v","i","t","e","s","s","e"," ","8">>
  /\ Len(recipe[1].steps[1].ingredient_annotations) = 2
  /\ recipe[1].steps[1].ingredient_annotations[1].position = [offset |-> 16, length |-> 5]
  /\ recipe[1].steps[1].ingredient_annotations[2].position = [offset |-> 6, length |-> 6]
  /\ Len(build_annotations(recipe[1].steps[1], locale)) = 3

\* the value of n when n is a decimal written with "." or "," or a fraction
\* a/b of two such decimals with b not zero, None for any other string
SimpleNumber(n) ==
  LET c == Replace(n, ",", ".")
      slashes == {i \in 1..Len(c) : c[i] = "/"}
  IN IF slashes = {} THEN (IF IsFloat(c) THEN Some(Float(c)) ELSE None)
     ELSE IF Cardinality(slashes) = 1
     THEN LET k == CHOOSE i \in slashes : TRUE
              a == SubSeq(c, 1, k - 1)
              b == SubSeq(c, k + 1, Len(c))
          IN IF IsFloat(a) /\ IsFloat(b) /\ Float(b).num # 0
             THEN Some(Rational(Float(a).num * Float(b).den, Float(a).den * Float(b).num))
             ELSE None
     ELSE None

\* C26: the conversion does not raise, and the quantity_numeric of an
\* ingredient parsed from a line whose raw quantity is n is the value of n
\* when n is a decimal or a simple fraction a/b, and absent for any other n.
C26_NumericQuantity ==
  /\ pc # "raised"
  /\ pc = "returned" =>
       \A g \in 1..Len(scraped.ingredients) : \A n \in QuantityStrings :
         scraped.ingredients[g] \in {LeadingOf(n), DashOf(n)} =>
           recipe[1].ingredients[g].quantity_numeric = SimpleNumber(n)
\* C26 counterexample state: "1/2/3" is not a fraction a/b, its first two
\* parts are divided and the third is ignored
C26_ThirdPartIgnored ==
  /\ pc = "returned"
  /\ scraped.ingredients = <<LeadingOf(<<"1","/","2","/","3">>)>>
  /\ SimpleNumber(<<"1","/","2","/","3">>) = None
  /\ recipe[1].ingredients[1].quantity_numeric = Some(Q(1, 2))

\* C28: a returned step whose text is exactly a keyword of the cooking table
\* has the speed, temperature, reverse flag and steam flag of that keyword's
\* own entry; one whose text is exactly a keyword of the mixing table has the
\* speed, duration and reverse flag of that keyword's own entry.
C28_PresetReachable ==
  pc = "returned" =>
    /\ \A k \in 1..Len(COOKING_KEYWORDS) :
         step_text = COOKING_KEYWORDS[k].keyword =>
           /\ step.speed = Some(COOKING_KEYWORDS[k].speed)
           /\ step.temperature = Some(COOKING_KEYWORDS[k].temp)
           /\ step.reverse = Get(COOKING_KEYWORDS[k], "reverse", FALSE)
           /\ step.is_varoma = Get(COOKING_KEYWORDS[k], "varoma", FALSE)
    /\ \A k \in 1..Len(MIXING_KEYWORDS) :
         step_text = MIXING_KEYWORDS[k].keyword =>
           /\ step.speed = Some(MIXING_KEYWORDS[k].speed)
           /\ step.duration_seconds = Some(MIXING_KEYWORDS[k].duration)
           /\ step.reverse = Get(MIXING_KEYWORDS[k], "reverse", FALSE)
\* C28 counterexample state: "chauffer" (90 degrees) is listed before
\* "rechauffer" (70 degrees) and is a substring of it
C28_Shadowed ==
  /\ pc = "returned"
  /\ step_text = <<"r","e","c","h","a","u","f","f","e","r">>
  /\ \E k \in 1..Len(COOKING_KEYWORDS) :
       /\ COOKING_KEYWORDS[k].keyword = step_text
       /\ COOKING_KEYWORDS[k].temp = 70
  /\ step.temperature = Some(90)

\* C27: no import_recipe call invokes upload_recipe on a client whose login has
\* not completed (such an invocation ends the call with the outcome
\* "not-connected"), and every create and update request is sent with a client
\* that is logged in.
C27_SessionSafety ==
  /\ \A t \in Tasks : tasks[t].outcome # "not-connected"
  /\ \A k \in 1..Len(remote) :
       remote[k].op \in {"create", "update"} => clients[remote[k].client].logged_in
\* C27 counterexample state: the login of call 1 failed after self._api was
\* set; call 2 found the global client connected, made no login and invoked
\* upload_recipe on it
C27_LoginSkipped ==
  /\ tasks[1].outcome = "login-failed"
  /\ _client = Some(1)
  /\ clients[1]._api /\ ~clients[1].logged_in
  /\ tasks[2].tool = "import_recipe"
  /\ tasks[2].client = None
  /\ tasks[2].thermomix_recipe # None
  /\ tasks[2].outcome = "not-connected"
  /\ remote = << >>

====
